---- MODULE Spec2Model ----
(***************************************************************************)
(* Model of the dependency-closure pruning run of                          *)
(* src/utils/remove_unused/remove.py: build_index, precompute_maps, the    *)
(* two breadth-first closures, the fixed-point loop of main, the deletion   *)
(* decision, the two deletion phases, the report and write_back.           *)
(***************************************************************************)
EXTENDS Integers, Sequences, FiniteSets, TLC

VARIABLES corpus, pc, idx, maps, kept_symptoms, used_exams, used_treats,
          iter_no, prev_state, kept, q, unused_symptoms, unused_exams,
          unused_treats,
          args,     \* the command line: [apply, backup]
          disk,     \* the documents under the root: file -> [ok, written, elems]
          bak,      \* the .bak files written: file -> elems
          report,   \* the lines printed from the decision on
          wq,       \* write_back: the files still to visit
          run_no,   \* 1 in the first run over the root, 2 in a second one
          first,    \* the results of the first run, kept for the second
          pass_start, \* the three sets as they were at the head of the pass
          dd,       \* remove_duplication: occ_map, trees_by_file, the counters
          fn_in,    \* the arguments of the function a utility is called with
          fn_out    \* what the function returned

\* What only the deletion phases, write_back and a second run touch.
io == <<args, disk, bak, report, wq, run_no, first>>

\* What the other utilities of the repository work on.
aside == <<dd, fn_in, fn_out>>

vars == <<corpus, pc, idx, maps, kept_symptoms, used_exams, used_treats,
          iter_no, prev_state, kept, q, unused_symptoms, unused_exams,
          unused_treats, args, disk, bak, report, wq, run_no, first,
          pass_start, dd, fn_in, fn_out>>

(***************************************************************************)
(* Bounds of the model.                                                    *)
(***************************************************************************)
\* The largest number of definition elements in one corpus.
MaxDefs == 5

\* The largest corpus of the runs that go on to the deletion phases and
\* write_back.
MaxApplyDefs == 4

\* The largest corpus of the runs whose scan order is arbitrary.
MaxPermDefs == 3

\* The largest corpus of the runs in which documents fail to parse.
MaxParseDefs == 3

\* iter_no saturates here, so that the state space stays finite even if the
\* loop did not stop; IterBelowCap shows the cap is never reached.
MaxIter == 6

(***************************************************************************)
(* Tags (remove.py lines 37-40).                                           *)
(***************************************************************************)
EXAM_TAG == "GameDBExamination"

SYMPTOM_TAG == "GameDBSymptom"

TREATMENT_TAG == "GameDBTreatment"

DIAGNOSIS_TAG == "GameDBMedicalCondition"

(***************************************************************************)
(* An element of a parsed document, as the XPaths of lines 44-58 see it:   *)
(* its file, tag, raw ID attribute and, per XPath, the set of raw text     *)
(* nodes it selects under the element.                                     *)
(*   syms     .//Symptoms//GameDBSymptomRef/text()                         *)
(*   exams    .//Examinations//ExaminationRef/text()                       *)
(*   treats   .//Treatments//TreatmentRef/text()                           *)
(*   collapse .//CollapseSymptomRef/text()                                 *)
(*   peers    .//LabTestingExaminationRef/text()                           *)
(*   ttype    .//TreatmentType/text()                                      *)
(*   comps    .//Complication//SymptomRef/text()                           *)
(***************************************************************************)
Elem(file, tag, id) ==
    [file |-> file, tag |-> tag, id |-> id, syms |-> {}, exams |-> {},
     treats |-> {}, collapse |-> {}, peers |-> {}, ttype |-> {}, comps |-> {}]

\* The elements a corpus is drawn from, in scan order: build_index sorts the
\* files by lower-cased path and findall keeps document order.
DefPool ==
    << [Elem("a.xml", DIAGNOSIS_TAG, "D1") EXCEPT !.syms = {"S1"}],
       [Elem("a.xml", DIAGNOSIS_TAG, " D2 ") EXCEPT !.exams = {" E1 ", " "}],
       [Elem("a.xml", DIAGNOSIS_TAG, "") EXCEPT !.syms = {"S3"}],
       [Elem("a.xml", SYMPTOM_TAG, "S1") EXCEPT !.collapse = {"S2"}],
       [Elem("a.xml", SYMPTOM_TAG, "S2") EXCEPT !.collapse = {"S3"}, !.exams = {"E2"}],
       [Elem("a.xml", SYMPTOM_TAG, "S3") EXCEPT !.collapse = {"S1", "S3"}, !.treats = {"T2"}],
       [Elem("a.xml", SYMPTOM_TAG, "S4") EXCEPT !.collapse = {"S2"}, !.exams = {"E3"}],
       [Elem("a.xml", EXAM_TAG, "E1") EXCEPT !.peers = {"E2"}],
       Elem("a.xml", EXAM_TAG, "E2"),
       [Elem("a.xml", EXAM_TAG, "E3") EXCEPT !.peers = {"E9"}],
       [Elem("a.xml", TREATMENT_TAG, "T1") EXCEPT !.ttype = {"Surgery"}],
       [Elem("a.xml", TREATMENT_TAG, "T2") EXCEPT !.ttype = {"MEDICINE"}, !.comps = {"S3"}],
       [Elem("b.xml", DIAGNOSIS_TAG, "D1") EXCEPT !.treats = {"T1"}],
       [Elem("b.xml", SYMPTOM_TAG, "S1") EXCEPT !.exams = {"E1"}],
       [Elem("b.xml", SYMPTOM_TAG, "S2") EXCEPT !.treats = {"T1"}],
       [Elem("b.xml", EXAM_TAG, "E1") EXCEPT !.peers = {"E9"}],
       [Elem("b.xml", EXAM_TAG, "E3") EXCEPT !.peers = {"E2"}],
       [Elem("b.xml", TREATMENT_TAG, "T1") EXCEPT !.ttype = {"MEDICINE"}, !.comps = {"S2"}],
       [Elem("b.xml", TREATMENT_TAG, "T2") EXCEPT !.ttype = {"SURGERY"}, !.comps = {"S4"}] >>

\* The subsequences of s with at most n elements, as sets of positions.
Picks(s, n) == {P \in SUBSET (1..Len(s)) : Cardinality(P) <= n}

\* The subsequence of s at the positions P, in the order of s.
SubSeqAt(s, P) ==
    LET F[i \in 0..Len(s)] ==
            IF i = 0 THEN <<>>
            ELSE IF i \in P THEN Append(F[i - 1], s[i]) ELSE F[i - 1]
    IN F[Len(s)]

\* The elements of a sequence.
Range(s) == {s[i] : i \in 1..Len(s)}

\* The orders in which a set can be iterated.
Perms(S) ==
    {p \in [1..Cardinality(S) -> S] : \A i, j \in 1..Cardinality(S) : p[i] = p[j] => i = j}

\* dict.get(k, ()) on a dict of sets.
Get(m, k) == IF k \in DOMAIN m THEN m[k] ELSE {}

(***************************************************************************)
(* Text helpers.                                                           *)
(***************************************************************************)
\* str.strip() on the raw texts that occur in DefPool.
Strip(s) ==
    CASE s = " E1 " -> "E1"
      [] s = " D2 " -> "D2"
      [] s = " " -> ""
      [] OTHER -> s

\* str.upper() on the treatment types that occur in DefPool.
Upper(s) ==
    CASE s = "Surgery" -> "SURGERY"
      [] OTHER -> s

\* Mutant of _texts: the texts are filtered but not stripped.
_texts_NoStrip(nodes) == {n \in nodes : n # "" /\ Strip(n) # ""}

\* _texts: {s.strip() for s in nodes if s and s.strip()}
_texts(nodes) == {Strip(s) : s \in {n \in nodes : n # "" /\ Strip(n) # ""}}

(***************************************************************************)
(* Entity index (Index, build_index).                                      *)
(***************************************************************************)
\* Index.add for one tag: the bucket id -> list of DefLoc, the definitions of
\* each id in scan order. build_index strips the ID attribute and skips the
\* elements whose ID is empty.
Bucket(elems, tag) ==
    LET defs == SelectSeq(elems, LAMBDA e : e.tag = tag /\ Strip(e.id) # "")
    IN [k \in {Strip(e.id) : e \in Range(defs)} |->
            SelectSeq(defs, LAMBDA e : Strip(e.id) = k)]

\* The tree of each file: its elements in document order. The model knows a
\* file by the elements it contributes.
TreesOf(elems) ==
    [f \in {e.file : e \in Range(elems)} |-> SelectSeq(elems, LAMBDA e : e.file = f)]

build_index(elems) ==
    [diagnoses |-> Bucket(elems, DIAGNOSIS_TAG),
     symptoms |-> Bucket(elems, SYMPTOM_TAG),
     exams |-> Bucket(elems, EXAM_TAG),
     treats |-> Bucket(elems, TREATMENT_TAG),
     trees_by_file |-> TreesOf(elems)]

(***************************************************************************)
(* Reference extraction (precompute_maps).                                 *)
(***************************************************************************)
\* The texts of the definition scanned last only.
UnionTexts_LastWins(locs, field) == _texts(locs[Len(locs)][field])

\* The union of _texts over one XPath of all the definitions in locs.
UnionTexts(locs, field) == UNION {_texts(loc[field]) : loc \in Range(locs)}

\* The union over every definition of every id of a bucket.
BucketTexts(bucket, field) ==
    UNION {UnionTexts(bucket[k], field) : k \in DOMAIN bucket}

\* A defaultdict(set) keeps a key for every id of the bucket it was filled from.
MapOf(bucket, field) == [k \in DOMAIN bucket |-> UnionTexts(bucket[k], field)]

\* Mutant of ExamAdj: only eid -> p is recorded, not p -> eid.
ExamAdj_OneWay(exams) ==
    [a \in {e \in DOMAIN exams : UnionTexts(exams[e], "peers") # {}} |->
        UnionTexts(exams[a], "peers")]

\* exam_adj: for each declared peer p of eid, eid -> p and p -> eid.
ExamAdj(exams) ==
    LET decl == {<<eid, p>> \in (DOMAIN exams) \X BucketTexts(exams, "peers") :
                    p \in UnionTexts(exams[eid], "peers")}
        keys == {d[1] : d \in decl} \cup {d[2] : d \in decl}
    IN [a \in keys |-> {d[2] : d \in {x \in decl : x[1] = a}}
                       \cup {d[1] : d \in {x \in decl : x[2] = a}}]

\* treat_is_surgery: some TreatmentType text of some definition is SURGERY,
\* compared in upper case.
TreatIsSurgery(treats) ==
    {tid \in DOMAIN treats :
        \E tt \in UnionTexts(treats[tid], "ttype") : Upper(tt) = "SURGERY"}

\* treat_complication_syms: only the treatments with a complication get a key.
TreatComplicationSyms(treats) ==
    [tid \in {t \in DOMAIN treats : UnionTexts(treats[t], "comps") # {}} |->
        UnionTexts(treats[tid], "comps")]

precompute_maps(ix) ==
    [diag_sym_refs |-> BucketTexts(ix.diagnoses, "syms"),
     diag_exam_refs |-> BucketTexts(ix.diagnoses, "exams"),
     diag_treat_refs |-> BucketTexts(ix.diagnoses, "treats"),
     symptom_to_exams |-> MapOf(ix.symptoms, "exams"),
     symptom_to_treats |-> MapOf(ix.symptoms, "treats"),
     symptom_collapse |-> MapOf(ix.symptoms, "collapse"),
     exam_adj |-> ExamAdj(ix.exams),
     treat_is_surgery |-> TreatIsSurgery(ix.treats),
     treat_complication_syms |-> TreatComplicationSyms(ix.treats)]

\* sorted(): the ids of S in increasing order.
IdOrder == <<"E1", "E2", "E3", "E9", "S1", "S2", "S3", "S4", "T1", "T2">>

Sorted(S) == SelectSeq(IdOrder, LAMBDA x : x \in S)

(***************************************************************************)
(* The run of main.                                                        *)
(***************************************************************************)
NoMaps == precompute_maps(build_index(<<>>))

\* The corpora of at most n elements of DefPool, in scan order.
Corpora(n) == {SubSeqAt(DefPool, P) : P \in Picks(DefPool, n)}

\* The documents on disk that a scan reads as elems.
DiskOf(elems) ==
    [f \in {e.file : e \in Range(elems)} |->
        [ok |-> TRUE, written |-> FALSE,
         elems |-> SelectSeq(elems, LAMBDA e : e.file = f)]]

\* No --apply, no --backup.
DryRun == [apply |-> FALSE, backup |-> FALSE]

\* Every command line.
AllArgs == [apply : BOOLEAN, backup : BOOLEAN]

NoResult ==
    [kept_symptoms |-> {}, used_exams |-> {}, used_treats |-> {},
     defined_symptoms |-> {}, defined_exams |-> {}, defined_treats |-> {},
     unused_symptoms |-> <<>>, unused_exams |-> <<>>, unused_treats |-> <<>>,
     applied |-> FALSE]

\* remove_duplication before its scan.
NoDedup == [occ_map |-> <<>>, trees_by_file |-> <<>>, todo |-> 0,
            removed |-> 0, kept |-> 0]

\* The documents holding elems, those of the files of bad being unreadable.
DiskWith(elems, bad) ==
    [f \in {e.file : e \in Range(elems)} |->
        [ok |-> f \notin bad, written |-> FALSE,
         elems |-> SelectSeq(elems, LAMBDA e : e.file = f)]]

\* The start of a utility at the place at of its code, on one of the corpora
\* with one of the command lines, any number of the documents being unreadable
\* when unreadable holds, and with one of the inputs as arguments.
StartAt(at, corpora, argset, unreadable, inputs) ==
    /\ corpus \in corpora
    /\ args \in argset
    /\ disk \in {DiskWith(corpus, bad) :
                   bad \in IF unreadable THEN SUBSET {e.file : e \in Range(corpus)}
                                        ELSE {{}}}
    /\ bak = [f \in {} |-> <<>>]
    /\ report = <<>>
    /\ wq = <<>>
    /\ run_no = 1
    /\ first = NoResult
    /\ pass_start = <<{}, {}, {}>>
    /\ dd = NoDedup
    /\ fn_in \in inputs
    /\ fn_out = <<>>
    /\ pc = at
    /\ idx = build_index(<<>>)
    /\ maps = NoMaps
    /\ kept_symptoms = {}
    /\ used_exams = {}
    /\ used_treats = {}
    /\ iter_no = 0
    /\ prev_state = <<0, 0, 0>>
    /\ kept = {}
    /\ q = <<>>
    /\ unused_symptoms = <<>>
    /\ unused_exams = <<>>
    /\ unused_treats = <<>>

\* The start of main of remove_unused.
StartOf(corpora, argset, unreadable) ==
    StartAt("scan", corpora, argset, unreadable, {<<>>})

\* The start of main when every document can be read.
InitWith(corpora, argset) == StartOf(corpora, argset, FALSE)

Init == InitWith(Corpora(MaxDefs), {DryRun})

\* The elements of every document, failed or not.
Parsed_All(elems) == elems

\* The elements of the documents for which parse_xml returns a tree: a file
\* whose parse raises is skipped (tree is None: continue).
Parsed(elems) == SelectSeq(elems, LAMBDA e : disk[e.file].ok)

\* The warnings parse_xml prints, one for each file that fails, in scan order.
ParseWarnings ==
    LET failed == SelectSeq(<<"a.xml", "b.xml">>,
                            LAMBDA f : f \in DOMAIN disk /\ ~disk[f].ok)
    IN [i \in 1..Len(failed) |->
           [text |-> "WARN parse", nums |-> <<>>, names |-> {failed[i]}]]

\* idx = build_index(root)
BuildIndex ==
    /\ pc = "scan"
    /\ idx' = build_index(Parsed(corpus))
    /\ report' = report \o ParseWarnings
    /\ pc' = "maps"
    /\ UNCHANGED <<args, disk, bak, wq, run_no, first>>
    /\ UNCHANGED <<pass_start, aside>>
    /\ UNCHANGED <<corpus, maps, kept_symptoms, used_exams, used_treats, iter_no,
                   prev_state, kept, q, unused_symptoms, unused_exams, unused_treats>>

\* (...) = precompute_maps(idx)
PrecomputeMaps ==
    /\ pc = "maps"
    /\ maps' = precompute_maps(idx)
    /\ pc' = "seed"
    /\ UNCHANGED io
    /\ UNCHANGED <<pass_start, aside>>
    /\ UNCHANGED <<corpus, idx, kept_symptoms, used_exams, used_treats, iter_no,
                   prev_state, kept, q, unused_symptoms, unused_exams, unused_treats>>

\* kept_symptoms, used_exams, used_treats start from the diagnoses' references.
SeedSets ==
    /\ pc = "seed"
    /\ kept_symptoms' = maps.diag_sym_refs
    /\ used_exams' = maps.diag_exam_refs
    /\ used_treats' = maps.diag_treat_refs
    /\ iter_no' = 0
    /\ pc' = "loop"
    /\ UNCHANGED io
    /\ UNCHANGED <<pass_start, aside>>
    /\ UNCHANGED <<corpus, idx, maps, prev_state, kept, q, unused_symptoms,
                   unused_exams, unused_treats>>

\* prev_state = (len(kept_symptoms), len(used_exams), len(used_treats))
StateSizes ==
    <<Cardinality(kept_symptoms), Cardinality(used_exams), Cardinality(used_treats)>>

\* The head of a pass of while True.
LoopHead ==
    /\ pc = "loop"
    /\ iter_no' = IF iter_no < MaxIter THEN iter_no + 1 ELSE iter_no
    /\ prev_state' = StateSizes
    /\ pass_start' = <<kept_symptoms, used_exams, used_treats>>
    /\ UNCHANGED aside
    /\ pc' = "collapse"
    /\ UNCHANGED io
    /\ UNCHANGED <<corpus, idx, maps, kept_symptoms, used_exams, used_treats,
                   kept, q, unused_symptoms, unused_exams, unused_treats>>

\* The targets the for loop of a closure adds for the popped id a: those of
\* adj.get(a, ()) that are not in kept yet.
NewTargets(adj, a, seen) == Get(adj, a) \ seen

\* Mutant of BfsTurn: a new target is added to kept but not appended to q.
BfsTurn_NoEnqueue(adj) ==
    /\ q # <<>>
    /\ kept' = kept \cup NewTargets(adj, Head(q), kept)
    /\ q' = Tail(q)

\* One turn of "while q" in either closure: popleft, then add and enqueue the new
\* targets, in the order the set is iterated.
BfsTurn(adj) ==
    /\ q # <<>>
    /\ LET new == NewTargets(adj, Head(q), kept)
       IN /\ kept' = kept \cup new
          /\ \E p \in Perms(new) : q' = Tail(q) \o p

\* Mutant of SeedCopy: the closure starts from an empty set and only queues the
\* seed.
SeedCopy_Empty(seed) == {}

\* kept = set(seed)
SeedCopy(seed) == seed

\* closure_collapse_symptoms: kept = set(seed); q = deque(seed)
CollapseCall ==
    /\ pc = "collapse"
    /\ kept' = SeedCopy(kept_symptoms)
    /\ q' \in Perms(kept_symptoms)
    /\ pc' = "collapse_bfs"
    /\ UNCHANGED io
    /\ UNCHANGED <<pass_start, aside>>
    /\ UNCHANGED <<corpus, idx, maps, kept_symptoms, used_exams, used_treats,
                   iter_no, prev_state, unused_symptoms, unused_exams, unused_treats>>

CollapseTurn ==
    /\ pc = "collapse_bfs"
    /\ BfsTurn(maps.symptom_collapse)
    /\ UNCHANGED io
    /\ UNCHANGED <<pass_start, aside>>
    /\ UNCHANGED <<corpus, pc, idx, maps, kept_symptoms, used_exams, used_treats,
                   iter_no, prev_state, unused_symptoms, unused_exams, unused_treats>>

\* return kept; kept_symptoms = closure_collapse_symptoms(...)
CollapseReturn ==
    /\ pc = "collapse_bfs"
    /\ q = <<>>
    /\ kept_symptoms' = kept
    /\ pc' = "expand"
    /\ UNCHANGED io
    /\ UNCHANGED <<pass_start, aside>>
    /\ UNCHANGED <<corpus, idx, maps, used_exams, used_treats, iter_no,
                   prev_state, kept, q, unused_symptoms, unused_exams, unused_treats>>

\* Mutant of ExpandSources: every defined symptom is expanded, kept or not.
ExpandSources_AllDefined == DOMAIN idx.symptoms

\* The symptoms whose examinations and treatments a pass adds.
ExpandSources == kept_symptoms

\* for s in list(kept_symptoms): used_exams.update(...); used_treats.update(...)
Expand ==
    /\ pc = "expand"
    /\ used_exams' = used_exams \cup
            UNION {Get(maps.symptom_to_exams, s) : s \in ExpandSources}
    /\ used_treats' = used_treats \cup
            UNION {Get(maps.symptom_to_treats, s) : s \in ExpandSources}
    /\ pc' = "equiv"
    /\ UNCHANGED io
    /\ UNCHANGED <<pass_start, aside>>
    /\ UNCHANGED <<corpus, idx, maps, kept_symptoms, iter_no, prev_state, kept, q,
                   unused_symptoms, unused_exams, unused_treats>>

\* closure_equiv_exams: kept = set(seed); q = deque(seed)
EquivCall ==
    /\ pc = "equiv"
    /\ kept' = SeedCopy(used_exams)
    /\ q' \in Perms(used_exams)
    /\ pc' = "equiv_bfs"
    /\ UNCHANGED io
    /\ UNCHANGED <<pass_start, aside>>
    /\ UNCHANGED <<corpus, idx, maps, kept_symptoms, used_exams, used_treats,
                   iter_no, prev_state, unused_symptoms, unused_exams, unused_treats>>

EquivTurn ==
    /\ pc = "equiv_bfs"
    /\ BfsTurn(maps.exam_adj)
    /\ UNCHANGED io
    /\ UNCHANGED <<pass_start, aside>>
    /\ UNCHANGED <<corpus, pc, idx, maps, kept_symptoms, used_exams, used_treats,
                   iter_no, prev_state, unused_symptoms, unused_exams, unused_treats>>

\* return kept; used_exams = closure_equiv_exams(...)
EquivReturn ==
    /\ pc = "equiv_bfs"
    /\ q = <<>>
    /\ used_exams' = kept
    /\ pc' = "surgery"
    /\ UNCHANGED io
    /\ UNCHANGED <<pass_start, aside>>
    /\ UNCHANGED <<corpus, idx, maps, kept_symptoms, used_treats, iter_no,
                   prev_state, kept, q, unused_symptoms, unused_exams, unused_treats>>

\* Mutant of ComplicationSources: the surgery test is left out.
ComplicationSources_AnyTreatment == used_treats

\* The treatments whose complication symptoms a pass keeps: the used ones that
\* are in treat_is_surgery.
ComplicationSources == {t \in used_treats : t \in maps.treat_is_surgery}

\* for t in list(used_treats): if t in treat_is_surgery: kept_symptoms.update(...)
Surgery ==
    /\ pc = "surgery"
    /\ kept_symptoms' = kept_symptoms \cup
            UNION {Get(maps.treat_complication_syms, t) : t \in ComplicationSources}
    /\ pc' = "check"
    /\ UNCHANGED io
    /\ UNCHANGED <<pass_start, aside>>
    /\ UNCHANGED <<corpus, idx, maps, used_exams, used_treats, iter_no, prev_state,
                   kept, q, unused_symptoms, unused_exams, unused_treats>>

\* Mutant of FixedPoint: the symptom count is left out of the comparison.
FixedPoint_ExamsTreatsOnly ==
    /\ StateSizes[2] = prev_state[2]
    /\ StateSizes[3] = prev_state[3]

\* Mutant of FixedPoint: the two states are of different types (a tuple and a
\* list), which never compare equal.
FixedPoint_NeverEqual == FALSE

\* Mutant of FixedPoint: only the number of kept symptoms is compared.
FixedPoint_SymptomsOnly == StateSizes[1] = prev_state[1]

\* if curr_state == prev_state: break
FixedPoint == StateSizes = prev_state

LoopCheck ==
    /\ pc = "check"
    /\ pc' = IF FixedPoint THEN "decide" ELSE "loop"
    /\ UNCHANGED io
    /\ UNCHANGED <<pass_start, aside>>
    /\ UNCHANGED <<corpus, idx, maps, kept_symptoms, used_exams, used_treats,
                   iter_no, prev_state, kept, q, unused_symptoms, unused_exams,
                   unused_treats>>

\* Mutant of Unused: the operands of the difference are swapped.
Unused_Swapped(bucket, keep) == Sorted(keep \ (DOMAIN bucket))

\* sorted(defined - kept), for one kind.
Unused(bucket, keep) == Sorted((DOMAIN bucket) \ keep)

\* Decide deletions.
Decide ==
    /\ pc = "decide"
    /\ unused_symptoms' = Unused(idx.symptoms, kept_symptoms)
    /\ unused_exams' = Unused(idx.exams, used_exams)
    /\ unused_treats' = Unused(idx.treats, used_treats)
    /\ pc' = "done"
    /\ UNCHANGED io
    /\ UNCHANGED <<pass_start, aside>>
    /\ UNCHANGED <<corpus, idx, maps, kept_symptoms, used_exams, used_treats,
                   iter_no, prev_state, kept, q>>

(***************************************************************************)
(* The deletion phases, the report and write_back.                         *)
(***************************************************************************)
\* A printed line: its fixed text, the numbers it formats and the names (entity
\* ids, files) it formats.
Line(text, nums, names) == [text |-> text, nums |-> nums, names |-> names]

\* Only the first loc of each id of the list.
DeletedLocs_FirstOnly(id_list, bucket) ==
    {bucket[k][1] : k \in Range(id_list) \cap DOMAIN bucket}

\* Every loc of the bucket, listed or not.
DeletedLocs_WholeBucket(id_list, bucket) ==
    UNION {Range(bucket[k]) : k \in DOMAIN bucket}

\* The definitions delete_ids removes: every loc of bucket.get(id_, []) for every
\* id of the list.
DeletedLocs(id_list, bucket) ==
    UNION {Range(bucket[k]) : k \in Range(id_list) \cap DOMAIN bucket}

\* parent.remove(loc.elem) for every loc of locs. An indexed element is a
\* descendant of its document's root (findall(".//tag")), so it has a parent.
RemoveFromTrees(trees, locs) ==
    [f \in DOMAIN trees |-> SelectSeq(trees[f], LAMBDA e : e \notin locs)]

\* bucket.pop(id_, None) for every id of the list.
PopIds(bucket, id_list) ==
    [k \in (DOMAIN bucket) \ Range(id_list) |-> bucket[k]]

\* delete_ids(id_list, bucket), bucket being the field kind of the index ix.
delete_ids(ix, kind, id_list) ==
    [ix EXCEPT ![kind] = PopIds(ix[kind], id_list),
               !.trees_by_file = RemoveFromTrees(ix.trees_by_file,
                                                 DeletedLocs(id_list, ix[kind]))]

\* The guard of a deletion: --apply and a list that is not empty.
ApplyDeletes_Always(list) == list # <<>>

\* The guard of a deletion: --apply and a list that is not empty.
ApplyDeletes(list) == args.apply /\ list # <<>>

\* The lines of phase 1, but for the count of the deletion list.
Phase1Lines_NoDeleteCount ==
    LET ndef == Cardinality(DOMAIN idx.symptoms)
        ndel == Len(unused_symptoms)
    IN <<Line("PHASE 1", <<>>, {}),
         Line("keep", <<ndef - ndel, ndef>>, {})>>

\* The lines of phase 1. defined_symptoms was read from idx.symptoms before any
\* deletion, and idx.symptoms is still whole when the lines are printed.
Phase1Lines ==
    LET ndef == Cardinality(DOMAIN idx.symptoms)
        ndel == Len(unused_symptoms)
    IN <<Line("PHASE 1", <<>>, {}),
         Line("keep", <<ndef - ndel, ndef>>, {}),
         Line("delete", <<ndel>>, {})>>

\* The lines of phase 2, printed before its deletions. The used counts are
\* len(used_exams) and len(used_treats).
Phase2Lines ==
    <<Line("PHASE 2", <<>>, {}),
      Line("exams used/def",
           <<Cardinality(used_exams), Cardinality(DOMAIN idx.exams),
             Len(unused_exams)>>, {}),
      Line("treatments used/def",
           <<Cardinality(used_treats), Cardinality(DOMAIN idx.treats),
             Len(unused_treats)>>, {})>>

\* The line printed after a deletion.
DeletedLine(what, list) == <<Line(what, <<Len(list)>>, {})>>

Phase1 ==
    /\ pc = "done"
    /\ IF ApplyDeletes(unused_symptoms)
       THEN /\ idx' = delete_ids(idx, "symptoms", unused_symptoms)
            /\ report' = report \o Phase1Lines
                                \o DeletedLine("Deleted symptoms", unused_symptoms)
       ELSE /\ idx' = idx
            /\ report' = report \o Phase1Lines
    /\ pc' = "phase2"
    /\ UNCHANGED <<pass_start, aside>>
    /\ UNCHANGED <<corpus, maps, kept_symptoms, used_exams, used_treats, iter_no,
                   prev_state, kept, q, unused_symptoms, unused_exams, unused_treats,
                   args, disk, bak, wq, run_no, first>>

Phase2 ==
    /\ pc = "phase2"
    /\ LET delE == ApplyDeletes(unused_exams)
           delT == ApplyDeletes(unused_treats)
           afterExams == IF delE THEN delete_ids(idx, "exams", unused_exams)
                                 ELSE idx
       IN /\ idx' = IF delT THEN delete_ids(afterExams, "treats", unused_treats)
                            ELSE afterExams
          /\ report' = report \o Phase2Lines
                 \o (IF delE THEN DeletedLine("Deleted examinations", unused_exams)
                             ELSE <<>>)
                 \o (IF delT THEN DeletedLine("Deleted treatments", unused_treats)
                             ELSE <<>>)
    /\ pc' = "write"
    /\ UNCHANGED <<pass_start, aside>>
    /\ UNCHANGED <<corpus, maps, kept_symptoms, used_exams, used_treats, iter_no,
                   prev_state, kept, q, unused_symptoms, unused_exams, unused_treats,
                   args, disk, bak, wq, run_no, first>>

\* The files in the order build_index scanned them (sorted by lower-cased path),
\* which is the order of idx.trees_by_file.items().
FileOrder == <<"a.xml", "b.xml">>

\* The tree of file f as build_index parsed it.
ParsedTree(f) == SelectSeq(corpus, LAMBDA e : e.file = f)

\* Only the files whose tree lost an element.
FilesToWrite_ModifiedOnly ==
    SelectSeq(FileOrder, LAMBDA f : f \in DOMAIN idx.trees_by_file
                                    /\ idx.trees_by_file[f] # ParsedTree(f))

\* Only the first file.
FilesToWrite_FirstOnly ==
    LET files == SelectSeq(FileOrder, LAMBDA f : f \in DOMAIN idx.trees_by_file)
    IN IF files = <<>> THEN <<>> ELSE <<Head(files)>>

\* The files write_back visits: every file of idx.trees_by_file.
FilesToWrite == SelectSeq(FileOrder, LAMBDA f : f \in DOMAIN idx.trees_by_file)

\* if args.apply: write_back(...) starts; else: the dry-run line ends the run.
WriteOrNot ==
    /\ pc = "write"
    /\ IF args.apply
       THEN /\ wq' = FilesToWrite
            /\ pc' = "write_back"
            /\ report' = report
       ELSE /\ wq' = wq
            /\ pc' = "end"
            /\ report' = Append(report, Line("DRY-RUN", <<>>, {}))
    /\ UNCHANGED <<pass_start, aside>>
    /\ UNCHANGED <<corpus, idx, maps, kept_symptoms, used_exams, used_treats,
                   iter_no, prev_state, kept, q, unused_symptoms, unused_exams,
                   unused_treats, args, disk, bak, run_no, first>>

\* The file a successful tree.write leaves.
Written(tree) == [ok |-> TRUE, written |-> TRUE, elems |-> tree]

\* What a failed tree.write can leave on disk: the file as it was, or a file
\* that is no longer a whole document.
FailedWrite(old) == {old, [ok |-> FALSE, written |-> TRUE, elems |-> <<>>]}

\* The loop stops at the first write that fails.
AfterTurn_Abort(wok, rest) == IF wok THEN rest ELSE <<>>

\* The files left to visit after a turn of the loop of write_back: the handlers
\* only print, so the loop goes on whether or not the write failed.
AfterTurn(wok, rest) == rest

\* One turn of the for loop of write_back, for the file f: the backup when
\* asked for, which may fail (bok), then the write, which may fail (wok); either
\* failure prints a warning and the loop goes on.
WriteBackFile ==
    /\ pc = "write_back"
    /\ wq # <<>>
    /\ LET f == Head(wq)
       IN \E bok \in BOOLEAN, wok \in BOOLEAN :
            /\ (~args.backup => bok)
            /\ bak' = IF args.backup /\ bok
                      THEN [g \in (DOMAIN bak) \cup {f} |->
                                IF g = f THEN disk[f].elems ELSE bak[g]]
                      ELSE bak
            /\ IF wok
               THEN disk' = [disk EXCEPT ![f] = Written(idx.trees_by_file[f])]
               ELSE \E d \in FailedWrite(disk[f]) : disk' = [disk EXCEPT ![f] = d]
            /\ report' = report
                  \o (IF bok THEN <<>> ELSE <<Line("WARN backup", <<>>, {f})>>)
                  \o (IF wok THEN <<>> ELSE <<Line("WARN write", <<>>, {f})>>)
            /\ wq' = AfterTurn(wok, Tail(wq))
    /\ UNCHANGED <<pass_start, aside>>
    /\ UNCHANGED <<corpus, pc, idx, maps, kept_symptoms, used_exams, used_treats,
                   iter_no, prev_state, kept, q, unused_symptoms, unused_exams,
                   unused_treats, args, run_no, first>>

\* write_back returns; main prints the last line.
WriteBackDone ==
    /\ pc = "write_back"
    /\ wq = <<>>
    /\ report' = Append(report, Line("DONE", <<>>, {}))
    /\ pc' = "end"
    /\ UNCHANGED <<pass_start, aside>>
    /\ UNCHANGED <<corpus, idx, maps, kept_symptoms, used_exams, used_treats,
                   iter_no, prev_state, kept, q, unused_symptoms, unused_exams,
                   unused_treats, args, disk, bak, wq, run_no, first>>

RECURSIVE ReadDisk(_)
\* What a scan of the root reads: the documents in the order of the files.
ReadDisk(files) ==
    IF files = <<>> THEN <<>>
    ELSE disk[Head(files)].elems \o ReadDisk(Tail(files))

\* main is started a second time on the same root, as a dry run, once the
\* first run has ended and every document can still be parsed. The results of
\* the first run are kept aside for comparison.
Rerun ==
    /\ pc = "end"
    /\ run_no = 1
    /\ \A f \in DOMAIN disk : disk[f].ok
    /\ first' = [kept_symptoms |-> kept_symptoms,
                 used_exams |-> used_exams,
                 used_treats |-> used_treats,
                 defined_symptoms |-> {Strip(e.id) : e \in
                     {x \in Range(corpus) : x.tag = SYMPTOM_TAG /\ Strip(x.id) # ""}},
                 defined_exams |-> {Strip(e.id) : e \in
                     {x \in Range(corpus) : x.tag = EXAM_TAG /\ Strip(x.id) # ""}},
                 defined_treats |-> {Strip(e.id) : e \in
                     {x \in Range(corpus) : x.tag = TREATMENT_TAG /\ Strip(x.id) # ""}},
                 unused_symptoms |-> unused_symptoms,
                 unused_exams |-> unused_exams,
                 unused_treats |-> unused_treats,
                 applied |-> args.apply]
    /\ corpus' = ReadDisk(SelectSeq(FileOrder, LAMBDA f : f \in DOMAIN disk))
    /\ args' = DryRun
    /\ run_no' = 2
    /\ report' = <<>>
    /\ pc' = "scan"
    /\ idx' = build_index(<<>>)
    /\ maps' = NoMaps
    /\ kept_symptoms' = {}
    /\ used_exams' = {}
    /\ used_treats' = {}
    /\ iter_no' = 0
    /\ prev_state' = <<0, 0, 0>>
    /\ kept' = {}
    /\ q' = <<>>
    /\ unused_symptoms' = <<>>
    /\ unused_exams' = <<>>
    /\ unused_treats' = <<>>
    /\ pass_start' = <<{}, {}, {}>>
    /\ UNCHANGED aside
    /\ UNCHANGED <<disk, bak, wq>>

\* The closure computation and the decision: main up to line 315.
Next ==
    \/ BuildIndex
    \/ PrecomputeMaps
    \/ SeedSets
    \/ LoopHead
    \/ CollapseCall
    \/ CollapseTurn
    \/ CollapseReturn
    \/ Expand
    \/ EquivCall
    \/ EquivTurn
    \/ EquivReturn
    \/ Surgery
    \/ LoopCheck
    \/ Decide

\* The whole of main.
NextMain ==
    \/ Next
    \/ Phase1
    \/ Phase2
    \/ WriteOrNot
    \/ WriteBackFile
    \/ WriteBackDone

Spec == Init /\ [][Next]_vars

\* The run is never suspended: every step that can be taken is taken.
FairSpec == Spec /\ WF_vars(Next)

\* Whole runs of main, with every command line.
ApplyInit == InitWith(Corpora(MaxApplyDefs), AllArgs)

ApplySpec == ApplyInit /\ [][NextMain]_vars

\* Runs with --apply, never suspended.
WriteInit == InitWith(Corpora(MaxApplyDefs), {[apply |-> TRUE, backup |-> FALSE]})

FairWriteSpec == WriteInit /\ [][NextMain]_vars /\ WF_vars(NextMain)

\* Whole runs of main on roots where documents may fail to parse.
ParseInit == StartOf(Corpora(MaxParseDefs), AllArgs, TRUE)

ParseSpec == ParseInit /\ [][NextMain]_vars

\* A run without or with --apply, then a second run on what the first left.
NextTwice ==
    \/ NextMain
    \/ Rerun

RerunInit ==
    InitWith(Corpora(MaxApplyDefs), {DryRun, [apply |-> TRUE, backup |-> FALSE]})

RerunSpec == RerunInit /\ [][NextTwice]_vars

\* The same definitions scanned in every order: the files under another name,
\* the definitions at another place of their document.
PermCorpora(n) == UNION {Perms(Range(c)) : c \in Corpora(n)}

PermInit == InitWith(PermCorpora(MaxPermDefs), {DryRun})

PermSpec == PermInit /\ [][Next]_vars

\* The cap on iter_no is never reached.
IterBelowCap == iter_no < MaxIter

(***************************************************************************)
(* The entity graph of the corpus, read off the documents: what the        *)
(* properties below are stated against.                                    *)
(***************************************************************************)
\* Every id that occurs in DefPool as a symptom, examination or treatment.
AllIds == Range(IdOrder)

\* The definitions of a kind: the elements of that tag that carry an ID.
DefsOf(tag) == {e \in Range(corpus) : e.tag = tag /\ Strip(e.id) # ""}

\* The ids that have a definition of a kind.
DefinedIds(tag) == {Strip(e.id) : e \in DefsOf(tag)}

\* The trimmed, non-empty reference values of one field of a set of definitions.
RefValues(defs, field) ==
    {x \in AllIds : \E e \in defs : \E r \in e[field] : Strip(r) = x}

\* The references of one field over all the definitions of the entity id.
RefsOf(tag, id, field) ==
    RefValues({e \in DefsOf(tag) : Strip(e.id) = id}, field)

DiagSymRefs == RefValues(DefsOf(DIAGNOSIS_TAG), "syms")

DiagExamRefs == RefValues(DefsOf(DIAGNOSIS_TAG), "exams")

DiagTreatRefs == RefValues(DefsOf(DIAGNOSIS_TAG), "treats")

CollapseTargets(s) == RefsOf(SYMPTOM_TAG, s, "collapse")

SymptomExams(s) == RefsOf(SYMPTOM_TAG, s, "exams")

SymptomTreats(s) == RefsOf(SYMPTOM_TAG, s, "treats")

\* Examination a declares b as a lab peer.
DeclaresPeer(a, b) == b \in RefsOf(EXAM_TAG, a, "peers")

\* a and b are lab-linked, whichever side declared the link.
LabLinked(a, b) == DeclaresPeer(a, b) \/ DeclaresPeer(b, a)

\* Some definition of treatment t declares the type SURGERY, in any case.
FlaggedSurgery(t) ==
    \E e \in DefsOf(TREATMENT_TAG) :
        Strip(e.id) = t /\ \E x \in e.ttype : Upper(Strip(x)) = "SURGERY"

Complications(t) == RefsOf(TREATMENT_TAG, t, "comps")

\* The fixed-point loop has exited.
LoopExited == pc \in {"decide", "done"}

(***************************************************************************)
(* C1: when the fixed-point loop exits, the three sets are closed under    *)
(* every edge rule at once: diagnosis refs, collapse targets of kept       *)
(* symptoms, exam/treatment refs of kept symptoms, lab-peer neighbours in  *)
(* either direction, and complication symptoms of used surgeries.          *)
(***************************************************************************)
C1_ClosedAtExit ==
    LoopExited =>
        /\ DiagSymRefs \subseteq kept_symptoms
        /\ \A s \in kept_symptoms : CollapseTargets(s) \subseteq kept_symptoms
        /\ DiagExamRefs \subseteq used_exams
        /\ DiagTreatRefs \subseteq used_treats
        /\ \A s \in kept_symptoms :
              /\ SymptomExams(s) \subseteq used_exams
              /\ SymptomTreats(s) \subseteq used_treats
        /\ \A a \in used_exams : \A b \in AllIds : LabLinked(a, b) => b \in used_exams
        /\ \A t \in used_treats :
              FlaggedSurgery(t) => Complications(t) \subseteq kept_symptoms

\* A run that needed three passes: a used surgery's complication symptom was
\* kept, and its collapse target or its examination was added by a later pass.
C1_Witness ==
    /\ pc = "done"
    /\ iter_no >= 3
    /\ \E t \in used_treats :
          /\ FlaggedSurgery(t)
          /\ \E s \in Complications(t) \ DiagSymRefs :
                (CollapseTargets(s) \cup SymptomExams(s)) \ {s} # {}

(***************************************************************************)
(* C2: the final sets are the least sets closed under the four rules:      *)
(* exactly the ids reached from a diagnosis reference by a finite chain of *)
(* collapse edges, kept-symptom refs, lab-peer edges and used-surgery      *)
(* complication edges; being defined keeps nothing.                        *)
(***************************************************************************)
\* One round of every rule applied to the sets X.
RuleRound(X) ==
    [S |-> X.S \cup DiagSymRefs
               \cup UNION {CollapseTargets(s) : s \in X.S}
               \cup UNION {Complications(t) : t \in {u \in X.T : FlaggedSurgery(u)}},
     E |-> X.E \cup DiagExamRefs
               \cup UNION {SymptomExams(s) : s \in X.S}
               \cup {b \in AllIds : \E a \in X.E : LabLinked(a, b)},
     T |-> X.T \cup DiagTreatRefs
               \cup UNION {SymptomTreats(s) : s \in X.S}]

RECURSIVE RuleLimit(_)
\* The ids reached by a chain of any finite length, starting from X.
RuleLimit(X) == IF RuleRound(X) = X THEN X ELSE RuleLimit(RuleRound(X))

\* The least closed sets.
Least == RuleLimit([S |-> {}, E |-> {}, T |-> {}])

C2_LeastClosedSets ==
    LoopExited =>
        /\ kept_symptoms = Least.S
        /\ used_exams = Least.E
        /\ used_treats = Least.T

\* A final state where a defined symptom, examination and treatment are left
\* out, and a symptom is kept that no diagnosis references.
C2_Witness ==
    /\ pc = "done"
    /\ DefinedIds(SYMPTOM_TAG) \ kept_symptoms # {}
    /\ DefinedIds(EXAM_TAG) \ used_exams # {}
    /\ DefinedIds(TREATMENT_TAG) \ used_treats # {}
    /\ kept_symptoms \ DiagSymRefs # {}

(***************************************************************************)
(* C3: for every finite corpus, with collapse cycles, self-references and  *)
(* lab-peer cycles, the breadth-first closures and the fixed-point loop    *)
(* terminate: every run reaches the end of the computation with a result.  *)
(***************************************************************************)
C3_Terminates == <>(pc = "done")

\* A finished run over a collapse graph with a self-reference on a cycle of
\* three kept symptoms.
C3_Witness ==
    /\ pc = "done"
    /\ \E s \in kept_symptoms :
          /\ s \in CollapseTargets(s)
          /\ \E a \in CollapseTargets(s) \ {s} :
                \E b \in CollapseTargets(a) \ {s, a} : s \in CollapseTargets(b)

(***************************************************************************)
(* C4: across the whole closure computation every step leaves each of      *)
(* kept_symptoms, used_exams and used_treats a superset of its previous    *)
(* value, the steps that reassign a set to a closure result included.      *)
(***************************************************************************)
C4_NeverShrinks ==
    [][/\ kept_symptoms \subseteq kept_symptoms'
       /\ used_exams \subseteq used_exams'
       /\ used_treats \subseteq used_treats']_vars

\* In a second or later pass, both closure results have been assigned and both
\* sets are larger than at the head of the pass.
C4_Witness ==
    /\ pc = "surgery"
    /\ iter_no >= 2
    /\ Cardinality(kept_symptoms) > prev_state[1]
    /\ Cardinality(used_exams) > prev_state[2]

(***************************************************************************)
(* C5: in every state of the closure computation and in the final result,  *)
(* every symptom, examination and treatment id referenced by a diagnosis   *)
(* is in kept_symptoms, used_exams and used_treats respectively, whether   *)
(* or not the id is defined.                                               *)
(***************************************************************************)
\* The three sets have been seeded.
Seeded == pc \notin {"scan", "maps", "seed"}

C5_SeedsIncluded ==
    Seeded =>
        /\ DiagSymRefs \subseteq kept_symptoms
        /\ DiagExamRefs \subseteq used_exams
        /\ DiagTreatRefs \subseteq used_treats

\* Inside a closure of a later pass, with a diagnosis referencing a symptom and
\* an examination or treatment that has no definition.
C5_Witness ==
    /\ pc \in {"collapse_bfs", "equiv_bfs"}
    /\ iter_no >= 2
    /\ DiagSymRefs # {}
    /\ (DiagExamRefs \ DefinedIds(EXAM_TAG)) \cup
       (DiagTreatRefs \ DefinedIds(TREATMENT_TAG)) # {}

(***************************************************************************)
(* C6: closure_collapse_symptoms(seed, collapse_map) returns exactly the   *)
(* seed plus every symptom reachable from a seed member by a chain of      *)
(* collapse references of any length, followed in their declared           *)
(* direction; a symptom that only points to a kept symptom is not added.   *)
(***************************************************************************)
RECURSIVE CollapseReach(_)
\* S and everything reachable from S along collapse references.
CollapseReach(S) ==
    LET T == S \cup UNION {CollapseTargets(s) : s \in S}
    IN IF T = S THEN S ELSE CollapseReach(T)

\* The step that assigns the result of closure_collapse_symptoms; before it
\* kept_symptoms is still the seed of the call.
C6_CollapseClosureExact ==
    [][(pc = "collapse_bfs" /\ pc' = "expand") =>
            /\ kept_symptoms' = CollapseReach(kept_symptoms)
            /\ \A r \in AllIds \ CollapseReach(kept_symptoms) : r \notin kept_symptoms']_vars

\* The closure is about to return a symptom two or more references away from
\* the seed, while a defined symptom that points to a kept one stays out.
C6_Witness ==
    /\ pc = "collapse_bfs"
    /\ q = <<>>
    /\ \E x \in kept \ kept_symptoms :
          x \notin UNION {CollapseTargets(s) : s \in kept_symptoms}
    /\ \E r \in DefinedIds(SYMPTOM_TAG) \ kept : CollapseTargets(r) \cap kept # {}

(***************************************************************************)
(* C7: lab-peer links are symmetric: if examination A declares B as a lab  *)
(* peer and either is in used_exams, both are in the final used_exams,     *)
(* whichever side declared the link; the final used_exams is a union of    *)
(* whole connected components of the undirected lab-peer graph.            *)
(***************************************************************************)
RECURSIVE LabComponent(_)
\* The ids connected to a member of S by lab-peer links taken in either direction.
LabComponent(S) ==
    LET T == S \cup {b \in AllIds : \E a \in S : LabLinked(a, b)}
    IN IF T = S THEN S ELSE LabComponent(T)

C7_LabPeersSymmetric ==
    LoopExited =>
        /\ \A a, b \in AllIds :
              (DeclaresPeer(a, b) /\ (a \in used_exams \/ b \in used_exams))
                  => (a \in used_exams /\ b \in used_exams)
        /\ \A a \in used_exams : LabComponent({a}) \subseteq used_exams

\* A used examination that nothing references and no examination names as a
\* peer: it is used only because it declared a link to a used examination.
C7_Witness ==
    /\ pc = "done"
    /\ \E a \in used_exams :
          /\ a \notin DiagExamRefs
          /\ \A s \in kept_symptoms : a \notin SymptomExams(s)
          /\ \A c \in AllIds : ~DeclaresPeer(c, a)
          /\ \E b \in used_exams \ {a} : DeclaresPeer(a, b)

(***************************************************************************)
(* C8: complication edges are conditional: a symptom is added through a    *)
(* complication reference only when its treatment is both in used_treats   *)
(* and flagged surgery; a symptom whose only incoming references are       *)
(* complication refs of treatments that are not surgery, or of surgeries   *)
(* that are not used, is never added to kept_symptoms.                     *)
(***************************************************************************)
\* Every symptom a step adds is a diagnosis reference, is reached by collapse
\* references from the symptoms kept before the step, or is a complication of
\* a treatment that is used and flagged surgery before the step.
C8_ComplicationsConditional ==
    [][\A s \in kept_symptoms' \ kept_symptoms :
          \/ s \in DiagSymRefs
          \/ s \in CollapseReach(kept_symptoms)
          \/ \E t \in used_treats : FlaggedSurgery(t) /\ s \in Complications(t)]_vars

\* After the surgery step: a symptom with no diagnosis and no collapse
\* reference to it is kept as the complication of a used surgery, while a
\* complication of an unused surgery or of a used non-surgery stays out.
C8_Witness ==
    /\ pc = "check"
    /\ \E s \in kept_symptoms \ DiagSymRefs :
          /\ \A a \in AllIds : s \notin CollapseTargets(a)
          /\ \E t \in used_treats : FlaggedSurgery(t) /\ s \in Complications(t)
    /\ \E s \in AllIds \ kept_symptoms :
          \E t \in DefinedIds(TREATMENT_TAG) :
             /\ s \in Complications(t)
             /\ (t \notin used_treats \/ ~FlaggedSurgery(t))

(***************************************************************************)
(* C9: for each kind the deletion list is exactly the defined ids minus    *)
(* the kept/used set: no kept or used id, no id without a definition of    *)
(* that kind, and every defined id outside the kept/used set.              *)
(***************************************************************************)
\* The sequence lists exactly the ids of S, each once.
ListsExactly(list, S) == Range(list) = S /\ Len(list) = Cardinality(S)

C9_DeletionListsExact ==
    pc = "done" =>
        /\ ListsExactly(unused_symptoms, DefinedIds(SYMPTOM_TAG) \ kept_symptoms)
        /\ ListsExactly(unused_exams, DefinedIds(EXAM_TAG) \ used_exams)
        /\ ListsExactly(unused_treats, DefinedIds(TREATMENT_TAG) \ used_treats)

\* A final state with a non-empty deletion list, a kept defined id and a
\* referenced id that has no definition.
C9_Witness ==
    /\ pc = "done"
    /\ unused_symptoms # <<>>
    /\ unused_exams # <<>>
    /\ kept_symptoms \cap DefinedIds(SYMPTOM_TAG) # {}
    /\ (kept_symptoms \ DefinedIds(SYMPTOM_TAG)) \cup
       (used_exams \ DefinedIds(EXAM_TAG)) # {}

(***************************************************************************)
(* C10: a defined examination that no diagnosis and no kept symptom        *)
(* references and that is lab-linked to no used examination is in          *)
(* unused_exams, also when symptoms that are not kept reference it; the    *)
(* same holds for a treatment referenced only by symptoms that are not     *)
(* kept.                                                                   *)
(***************************************************************************)
C10_UnreferencedPruned ==
    pc = "done" =>
        /\ \A e \in DefinedIds(EXAM_TAG) :
              ( /\ e \notin DiagExamRefs
                /\ \A s \in kept_symptoms : e \notin SymptomExams(s)
                /\ \A u \in used_exams \ {e} : ~LabLinked(e, u) )
                  => e \in Range(unused_exams)
        /\ \A t \in DefinedIds(TREATMENT_TAG) :
              ( /\ t \notin DiagTreatRefs
                /\ \A s \in kept_symptoms : t \notin SymptomTreats(s) )
                  => t \in Range(unused_treats)

\* An examination and a treatment are deleted although a defined symptom, which
\* is not kept, references each of them.
C10_Witness ==
    /\ pc = "done"
    /\ \E e \in Range(unused_exams) :
          \E s \in DefinedIds(SYMPTOM_TAG) \ kept_symptoms : e \in SymptomExams(s)
    /\ \E t \in Range(unused_treats) :
          \E s \in DefinedIds(SYMPTOM_TAG) \ kept_symptoms : t \in SymptomTreats(s)

(***************************************************************************)
(* C11: when an id has several definitions, the reference sets the closure *)
(* uses are the union of the references of all its definitions, and a      *)
(* treatment is a surgery when any definition says so; whatever the order  *)
(* in which the definitions are scanned, the maps, the kept and used sets  *)
(* and the deletion lists are those of the scan in the canonical order.    *)
(***************************************************************************)
\* The definitions of the corpus in the order of DefPool.
Canonical ==
    SubSeqAt(DefPool, {i \in 1..Len(DefPool) : DefPool[i] \in Range(corpus)})

C11_UnionOrderFree ==
    /\ pc \notin {"scan", "maps"} =>
          /\ maps = precompute_maps(build_index(Canonical))
          /\ \A s \in DefinedIds(SYMPTOM_TAG) :
                /\ maps.symptom_to_exams[s] = SymptomExams(s)
                /\ maps.symptom_to_treats[s] = SymptomTreats(s)
                /\ maps.symptom_collapse[s] = CollapseTargets(s)
          /\ \A e \in DefinedIds(EXAM_TAG) :
                \A p \in RefsOf(EXAM_TAG, e, "peers") : p \in Get(maps.exam_adj, e)
          /\ \A t \in DefinedIds(TREATMENT_TAG) :
                /\ t \in maps.treat_is_surgery <=> FlaggedSurgery(t)
                /\ Get(maps.treat_complication_syms, t) = Complications(t)
    /\ pc = "done" =>
          /\ kept_symptoms = Least.S
          /\ used_exams = Least.E
          /\ used_treats = Least.T
          /\ unused_symptoms = Sorted(DefinedIds(SYMPTOM_TAG) \ Least.S)
          /\ unused_exams = Sorted(DefinedIds(EXAM_TAG) \ Least.E)
          /\ unused_treats = Sorted(DefinedIds(TREATMENT_TAG) \ Least.T)

\* A kept symptom has two definitions, scanned in the order opposite to the
\* canonical one; the first scanned brings an examination, the second a
\* collapse target, and both are in the final sets.
C11_Witness ==
    /\ pc = "done"
    /\ corpus # Canonical
    /\ \E i, j \in 1..Len(corpus) :
          /\ i < j
          /\ corpus[i].tag = SYMPTOM_TAG /\ corpus[j].tag = SYMPTOM_TAG
          /\ corpus[i].id = corpus[j].id
          /\ corpus[i].file = "b.xml" /\ corpus[j].file = "a.xml"
          /\ corpus[i].id \in kept_symptoms
          /\ _texts(corpus[i].exams) # {}
          /\ _texts(corpus[i].exams) \subseteq used_exams
          /\ _texts(corpus[j].collapse) # {}
          /\ _texts(corpus[j].collapse) \subseteq kept_symptoms

(***************************************************************************)
(* C12: a second run on the corpus a dry run left yields the deletion      *)
(* lists of the first run; a second run on the corpus an --apply run left, *)
(* every document written, yields three empty deletion lists and the kept  *)
(* and used sets of the first run, restricted to the defined ids.          *)
(***************************************************************************)
\* Every document holds what the first run wrote.
AllPersisted == \A f \in DOMAIN disk : disk[f].ok /\ disk[f].written

\* The second run has decided.
SecondDecided == run_no = 2 /\ pc \in {"done", "phase2", "write", "end"}

C12_Idempotent ==
    SecondDecided =>
        /\ ~first.applied =>
              /\ unused_symptoms = first.unused_symptoms
              /\ unused_exams = first.unused_exams
              /\ unused_treats = first.unused_treats
        /\ (first.applied /\ AllPersisted) =>
              /\ unused_symptoms = <<>>
              /\ unused_exams = <<>>
              /\ unused_treats = <<>>
              /\ kept_symptoms \cap DefinedIds(SYMPTOM_TAG)
                    = first.kept_symptoms \cap first.defined_symptoms
              /\ used_exams \cap DefinedIds(EXAM_TAG)
                    = first.used_exams \cap first.defined_exams
              /\ used_treats \cap DefinedIds(TREATMENT_TAG)
                    = first.used_treats \cap first.defined_treats

\* The second run has decided on a corpus from which the first run removed a
\* symptom, and it still keeps a defined symptom and uses a defined examination.
C12_Witness ==
    /\ SecondDecided
    /\ first.applied
    /\ AllPersisted
    /\ first.unused_symptoms # <<>>
    /\ kept_symptoms \cap DefinedIds(SYMPTOM_TAG) # {}
    /\ used_exams \cap DefinedIds(EXAM_TAG) # {}

(***************************************************************************)
(* C13: without --apply the run has no side effect: the document trees and *)
(* the buckets of the index stay as the scan built them, no document is    *)
(* written and no backup is made, whatever the deletion lists hold and     *)
(* whether or not --backup is given.                                       *)
(***************************************************************************)
C13_DryRunNoEffect ==
    ~args.apply =>
        /\ pc # "scan" => idx = build_index(corpus)
        /\ disk = DiskOf(corpus)
        /\ DOMAIN bak = {}
        /\ wq = <<>>

\* A dry run with --backup has ended with three non-empty deletion lists.
C13_Witness ==
    /\ ~args.apply
    /\ args.backup
    /\ pc = "end"
    /\ unused_symptoms # <<>>
    /\ unused_exams # <<>>
    /\ unused_treats # <<>>

(***************************************************************************)
(* C14, as stated: the report of a dry run gives, for each kind, the count *)
(* of the deletion list and names each of its ids.                         *)
(***************************************************************************)
\* Some line of the report gives n at place k of the numbers of the line text.
Reports(text, k, n) ==
    \E i \in 1..Len(report) :
        /\ report[i].text = text
        /\ Len(report[i].nums) >= k
        /\ report[i].nums[k] = n

\* The report gives the three counts.
ReportsCounts ==
    /\ Reports("delete", 1, Len(unused_symptoms))
    /\ Reports("exams used/def", 3, Len(unused_exams))
    /\ Reports("treatments used/def", 3, Len(unused_treats))

\* The names the report prints.
ReportedNames == UNION {report[i].names : i \in 1..Len(report)}

C14_ReportNamesIds ==
    (pc = "end" /\ ~args.apply) =>
        /\ ReportsCounts
        /\ Range(unused_symptoms) \cup Range(unused_exams) \cup Range(unused_treats)
              \subseteq ReportedNames

(***************************************************************************)
(* C14, amended: the report of a dry run gives, for each kind, the count   *)
(* of the deletion list, and names no id.                                  *)
(***************************************************************************)
C14_ReportCountsOnly ==
    (pc = "end" /\ ~args.apply) =>
        /\ ReportsCounts
        /\ ReportedNames = {}

\* A dry run has ended with a deletion list of two symptoms and non-empty
\* lists of the other kinds.
C14_Witness ==
    /\ pc = "end"
    /\ ~args.apply
    /\ Len(unused_symptoms) = 2
    /\ unused_exams # <<>>
    /\ unused_treats # <<>>

(***************************************************************************)
(* C15: with --apply, once the deletion phases are over and before         *)
(* write_back starts, no document tree holds a definition of an id of a    *)
(* deletion list, in any file; and no document that write_back has written *)
(* holds one.                                                              *)
(***************************************************************************)
\* The definition e is one of an id of the deletion list of its kind.
Listed(e) ==
    \/ e.tag = SYMPTOM_TAG /\ Strip(e.id) \in Range(unused_symptoms)
    \/ e.tag = EXAM_TAG /\ Strip(e.id) \in Range(unused_exams)
    \/ e.tag = TREATMENT_TAG /\ Strip(e.id) \in Range(unused_treats)

\* The deletion phases are over.
Deleted == pc \in {"write", "write_back", "end"}

C15_AllDefinitionsRemoved ==
    (args.apply /\ Deleted) =>
        /\ \A f \in DOMAIN idx.trees_by_file :
              \A e \in Range(idx.trees_by_file[f]) : ~Listed(e)
        /\ \A f \in DOMAIN disk :
              (disk[f].ok /\ disk[f].written) =>
                  \A e \in Range(disk[f].elems) : ~Listed(e)

\* write_back is about to start, and an id of a deletion list had a definition
\* in each of the two files.
C15_Witness ==
    /\ args.apply
    /\ pc = "write"
    /\ \E d, e \in Range(corpus) :
          /\ Listed(d) /\ Listed(e)
          /\ d.tag = e.tag /\ Strip(d.id) = Strip(e.id)
          /\ d.file = "a.xml" /\ e.file = "b.xml"

(***************************************************************************)
(* C16: with --apply, the definitions removed from the document trees are  *)
(* exactly the definitions of the ids of the three deletion lists: no      *)
(* diagnosis is removed, and no definition of a symptom of kept_symptoms,  *)
(* of an examination of used_exams or of a treatment of used_treats.       *)
(***************************************************************************)
\* The definition e is still in the tree of its file.
InTree(e) ==
    /\ e.file \in DOMAIN idx.trees_by_file
    /\ e \in Range(idx.trees_by_file[e.file])

C16_NothingElseRemoved ==
    (args.apply /\ Deleted) =>
        /\ \A f \in DOMAIN idx.trees_by_file :
              idx.trees_by_file[f] = SelectSeq(ParsedTree(f), LAMBDA e : ~Listed(e))
        /\ \A e \in Range(corpus) :
              /\ e.tag = DIAGNOSIS_TAG => InTree(e)
              /\ (e.tag = SYMPTOM_TAG /\ Strip(e.id) \in kept_symptoms) => InTree(e)
              /\ (e.tag = EXAM_TAG /\ Strip(e.id) \in used_exams) => InTree(e)
              /\ (e.tag = TREATMENT_TAG /\ Strip(e.id) \in used_treats) => InTree(e)

\* The deletions are done: a definition is gone, and a diagnosis, a diagnosis
\* without ID and a kept symptom are left.
C16_Witness ==
    /\ args.apply
    /\ Deleted
    /\ \E e \in Range(corpus) : ~InTree(e)
    /\ \E e \in Range(corpus) : e.tag = DIAGNOSIS_TAG /\ Strip(e.id) # ""
    /\ \E e \in Range(corpus) : e.tag = DIAGNOSIS_TAG /\ Strip(e.id) = ""
    /\ \E e \in Range(corpus) : e.tag = SYMPTOM_TAG /\ Strip(e.id) \in kept_symptoms

(***************************************************************************)
(* C17, as stated: with --apply a document from which no definition was    *)
(* removed is neither written nor backed up.                               *)
(***************************************************************************)
\* The run printed the warning text for the file f.
Warned(text, f) ==
    \E i \in 1..Len(report) : report[i].text = text /\ f \in report[i].names

\* The tree of f lost no element.
Unmodified(f) == idx.trees_by_file[f] = ParsedTree(f)

C17_OnlyModifiedWritten ==
    (args.apply /\ pc = "end") =>
        \A f \in DOMAIN idx.trees_by_file :
            Unmodified(f) => ~disk[f].written /\ f \notin DOMAIN bak

(***************************************************************************)
(* C17, amended: with --apply every parsed document is written, whether or *)
(* not a definition was removed from it, and with --backup every parsed    *)
(* document is backed up; only a write or a backup that fails, which is    *)
(* reported, leaves the file or its backup out.                            *)
(***************************************************************************)
C17_EveryParsedWritten ==
    (args.apply /\ pc = "end") =>
        \A f \in DOMAIN idx.trees_by_file :
            /\ ~Warned("WARN write", f) => disk[f] = Written(idx.trees_by_file[f])
            /\ (args.backup /\ ~Warned("WARN backup", f)) =>
                  f \in DOMAIN bak /\ bak[f] = ParsedTree(f)
            /\ ~args.backup => f \notin DOMAIN bak

\* An --apply --backup run has ended with three empty deletion lists, and a
\* document was written and backed up.
C17_Witness ==
    /\ args.apply
    /\ args.backup
    /\ pc = "end"
    /\ unused_symptoms = <<>> /\ unused_exams = <<>> /\ unused_treats = <<>>
    /\ \E f \in DOMAIN idx.trees_by_file :
          /\ Unmodified(f)
          /\ disk[f].written
          /\ f \in DOMAIN bak

(***************************************************************************)
(* C18: a write that fails does not stop the run: every turn of the loop   *)
(* of write_back, failed or not, leaves the loop with the remaining        *)
(* documents to visit and leaves every other document on disk as it is, so *)
(* nothing written before is rolled back; and the run reaches its end.     *)
(***************************************************************************)
C18_WriteFailureNonFatal ==
    /\ [][(pc = "write_back" /\ wq # <<>>) =>
             /\ pc' = "write_back"
             /\ wq' = Tail(wq)
             /\ \A g \in (DOMAIN disk) \ {Head(wq)} : disk'[g] = disk[g]]_vars
    /\ [][pc = "end" => pc' = "end"]_vars
    /\ <>(pc = "end")

\* The run has ended; the write of a.xml failed, and b.xml, visited after it,
\* holds its tree without the definitions removed from it.
C18_Witness ==
    /\ pc = "end"
    /\ Warned("WARN write", "a.xml")
    /\ "b.xml" \in DOMAIN disk
    /\ ~Unmodified("b.xml")
    /\ disk["b.xml"] = Written(idx.trees_by_file["b.xml"])

(***************************************************************************)
(* C19, as stated: at the end of a run with --apply, either every document *)
(* from which a definition was removed holds its tree after the deletions  *)
(* on disk, or every such document is on disk as it was.                   *)
(***************************************************************************)
\* The documents from which the run removed a definition.
ModifiedFiles == {f \in DOMAIN idx.trees_by_file : ~Unmodified(f)}

\* The document f on disk holds its tree after the deletions.
Persisted(f) == disk[f].ok /\ disk[f].elems = idx.trees_by_file[f]

\* The document f on disk holds what the scan read.
AsScanned(f) == disk[f].ok /\ disk[f].elems = ParsedTree(f)

C19_AllOrNothing ==
    (args.apply /\ pc = "end") =>
        \/ \A f \in ModifiedFiles : Persisted(f)
        \/ \A f \in ModifiedFiles : AsScanned(f)

(***************************************************************************)
(* C19, amended: the deletions are persisted document by document. At the  *)
(* end of a run with --apply a document whose write did not fail holds its *)
(* tree after the deletions, and a document whose write failed is as it    *)
(* was or is no longer a whole document, whatever happened to the others;  *)
(* every document holds the deletions only when no write failed.           *)
(***************************************************************************)
C19_PerDocument ==
    (args.apply /\ pc = "end") =>
        /\ \A f \in DOMAIN idx.trees_by_file :
              IF Warned("WARN write", f)
              THEN ~disk[f].ok \/ AsScanned(f)
              ELSE Persisted(f)
        /\ (\A f \in DOMAIN idx.trees_by_file : ~Warned("WARN write", f))
              => \A f \in ModifiedFiles : Persisted(f)

\* A run with --apply has ended; definitions were removed from both documents,
\* a.xml holds the deletions and b.xml, whose write failed, is as it was.
C19_Witness ==
    /\ args.apply
    /\ pc = "end"
    /\ ModifiedFiles = {"a.xml", "b.xml"}
    /\ Persisted("a.xml")
    /\ Warned("WARN write", "b.xml")
    /\ AsScanned("b.xml")

(***************************************************************************)
(* C20: an id that is referenced but has no definition of its kind brings  *)
(* no edge to the closure: the defined symptoms, examinations and          *)
(* treatments of the final sets are those reached by chains whose lab-peer *)
(* steps start from a defined examination, so that two defined             *)
(* examinations naming the same undefined peer are not linked by it.       *)
(***************************************************************************)
\* One round of the rules, a lab-peer step starting from defined
\* examinations only.
DefinedRound(X) ==
    [S |-> X.S \cup DiagSymRefs
               \cup UNION {CollapseTargets(s) : s \in X.S}
               \cup UNION {Complications(t) : t \in {u \in X.T : FlaggedSurgery(u)}},
     E |-> X.E \cup DiagExamRefs
               \cup UNION {SymptomExams(s) : s \in X.S}
               \cup {b \in AllIds : \E a \in X.E \cap DefinedIds(EXAM_TAG) :
                                        LabLinked(a, b)},
     T |-> X.T \cup DiagTreatRefs
               \cup UNION {SymptomTreats(s) : s \in X.S}]

RECURSIVE DefinedLimit(_)
DefinedLimit(X) ==
    IF DefinedRound(X) = X THEN X ELSE DefinedLimit(DefinedRound(X))

\* The sets reached without a step out of an undefined id.
LeastDefined == DefinedLimit([S |-> {}, E |-> {}, T |-> {}])

C20_DanglingNoEdges ==
    pc = "done" =>
        /\ kept_symptoms \cap DefinedIds(SYMPTOM_TAG)
              = LeastDefined.S \cap DefinedIds(SYMPTOM_TAG)
        /\ used_exams \cap DefinedIds(EXAM_TAG)
              = LeastDefined.E \cap DefinedIds(EXAM_TAG)
        /\ used_treats \cap DefinedIds(TREATMENT_TAG)
              = LeastDefined.T \cap DefinedIds(TREATMENT_TAG)

(***************************************************************************)
(* C21: a document that fails to parse is skipped and the run goes on: the *)
(* definitions of every other document are indexed, the failed document    *)
(* brings no definition and no reference, and with --apply it is neither   *)
(* backed up nor overwritten.                                              *)
(***************************************************************************)
\* The file f could not be parsed: it is unreadable and the run has not
\* written to it.
FailedToParse(f) == f \in DOMAIN disk /\ ~disk[f].ok /\ ~disk[f].written

\* The index is built and no deletion has touched it.
IndexWhole == pc \notin {"scan", "phase2", "write", "write_back", "end"}

\* The bucket of the index for the tag.
BucketOf(tag) ==
    IF tag = DIAGNOSIS_TAG THEN idx.diagnoses
    ELSE IF tag = SYMPTOM_TAG THEN idx.symptoms
    ELSE IF tag = EXAM_TAG THEN idx.exams
    ELSE idx.treats

\* The definitions with an ID in the documents that did parse.
ReadableDefs(tag) ==
    {e \in Range(corpus) : e.tag = tag /\ Strip(e.id) # "" /\ ~FailedToParse(e.file)}

\* What holds of the index and the maps in every state.
SkippedInIndex ==
    /\ IndexWhole =>
          /\ \A f \in DOMAIN disk :
                f \in DOMAIN idx.trees_by_file <=> ~FailedToParse(f)
          /\ \A tag \in {DIAGNOSIS_TAG, SYMPTOM_TAG, EXAM_TAG, TREATMENT_TAG} :
                /\ \A e \in ReadableDefs(tag) :
                      /\ Strip(e.id) \in DOMAIN BucketOf(tag)
                      /\ e \in Range(BucketOf(tag)[Strip(e.id)])
                /\ \A k \in DOMAIN BucketOf(tag) :
                      Range(BucketOf(tag)[k]) \subseteq ReadableDefs(tag)
    /\ pc \notin {"scan", "maps"} =>
          /\ maps.diag_sym_refs = RefValues(ReadableDefs(DIAGNOSIS_TAG), "syms")
          /\ maps.diag_exam_refs = RefValues(ReadableDefs(DIAGNOSIS_TAG), "exams")
          /\ maps.diag_treat_refs = RefValues(ReadableDefs(DIAGNOSIS_TAG), "treats")
          /\ \A s \in DOMAIN maps.symptom_collapse :
                maps.symptom_collapse[s] =
                    RefValues({e \in ReadableDefs(SYMPTOM_TAG) : Strip(e.id) = s},
                              "collapse")

C21_ParseFailureSkipped ==
    /\ []SkippedInIndex
    /\ [][\A f \in DOMAIN disk :
             FailedToParse(f) =>
                 /\ disk'[f] = disk[f]
                 /\ f \notin DOMAIN bak'
                 /\ f \notin Range(wq')]_vars

\* An --apply --backup run has ended; a.xml failed to parse and holds a
\* diagnosis referencing a symptom that b.xml defines and that is deleted;
\* b.xml was backed up and written.
C21_Witness ==
    /\ pc = "end"
    /\ args.apply /\ args.backup
    /\ FailedToParse("a.xml")
    /\ \E e \in Range(corpus) :
          /\ e.file = "a.xml" /\ e.tag = DIAGNOSIS_TAG
          /\ _texts(e.syms) \cap Range(unused_symptoms) # {}
    /\ "b.xml" \in DOMAIN bak
    /\ disk["b.xml"] = Written(idx.trees_by_file["b.xml"])

(***************************************************************************)
(* src/utils/remove_duplication/remove.py: keep only the last definition   *)
(* of every (tag, ID).                                                     *)
(***************************************************************************)
\* The largest corpus given to remove_duplication.
MaxDedupDefs == 4

TAG_WHITELIST == {DIAGNOSIS_TAG, SYMPTOM_TAG, EXAM_TAG, TREATMENT_TAG}

\* The elements a corpus of remove_duplication is drawn from, in the global
\* order: files sorted by lower-cased path, document order inside a file. The
\* reference fields only tell apart the definitions of one key.
DedupPool ==
    << [Elem("a.xml", SYMPTOM_TAG, "S1") EXCEPT !.exams = {"E1"}],
       [Elem("a.xml", SYMPTOM_TAG, "S1") EXCEPT !.exams = {"E2"}],
       Elem("a.xml", EXAM_TAG, "E1"),
       Elem("a.xml", SYMPTOM_TAG, "E1"),
       Elem("a.xml", DIAGNOSIS_TAG, ""),
       [Elem("a.xml", DIAGNOSIS_TAG, "") EXCEPT !.syms = {"S1"}],
       Elem("a.xml", TREATMENT_TAG, "T1"),
       Elem("b.xml", SYMPTOM_TAG, "S1"),
       Elem("b.xml", EXAM_TAG, " E1 "),
       Elem("b.xml", TREATMENT_TAG, "T1"),
       Elem("b.xml", EXAM_TAG, "E2") >>

DedupCorpora(n) == {SubSeqAt(DedupPool, P) : P \in Picks(DedupPool, n)}

\* The key of a definition: its tag and its stripped ID.
KeyOf(e) == <<e.tag, Strip(e.id)>>

\* enumerate_defs_in_file over the files in order: the elements of a
\* whitelisted tag with a non-empty ID.
enumerate_defs(elems) ==
    SelectSeq(elems, LAMBDA e : e.tag \in TAG_WHITELIST /\ Strip(e.id) # "")

\* The keys in the order in which occ_map first sees them.
KeysInOrder(defs) ==
    LET F[i \in 0..Len(defs)] ==
            IF i = 0 THEN <<>>
            ELSE IF KeyOf(defs[i]) \in Range(F[i - 1]) THEN F[i - 1]
            ELSE Append(F[i - 1], KeyOf(defs[i]))
    IN F[Len(defs)]

\* occ_map: for each key, in insertion order, its definitions in global order.
build_occurrence_index(elems) ==
    LET defs == enumerate_defs(elems)
        keys == KeysInOrder(defs)
    IN [j \in 1..Len(keys) |->
           [key |-> keys[j],
            locs |-> SelectSeq(defs, LAMBDA e : KeyOf(e) = keys[j])]]

\* All but the first definition.
to_remove_KeepFirst(locs) == SubSeq(locs, 2, Len(locs))

\* to_remove = locs[:-1]
to_remove(locs) == SubSeq(locs, 1, Len(locs) - 1)

\* occ_map, trees_by_file = build_occurrence_index(root), and the two INFO lines.
DedupScan ==
    /\ pc = "dd_scan"
    /\ LET occ == build_occurrence_index(Parsed(corpus))
           dups == SelectSeq(occ, LAMBDA o : Len(o.locs) > 1)
       IN /\ dd' = [occ_map |-> occ, trees_by_file |-> TreesOf(Parsed(corpus)),
                    todo |-> 1, removed |-> 0, kept |-> 0]
          /\ report' = report \o ParseWarnings
                \o <<Line("INFO collected",
                          <<Len(enumerate_defs(Parsed(corpus))), Len(occ)>>, {}),
                     Line("INFO duplicated",
                          <<Len(dups),
                            Len(enumerate_defs(Parsed(corpus))) - Len(occ)>>, {})>>
    /\ pc' = "dd_loop"
    /\ UNCHANGED <<corpus, idx, maps, kept_symptoms, used_exams, used_treats,
                   iter_no, prev_state, kept, q, unused_symptoms, unused_exams,
                   unused_treats, args, disk, bak, wq, run_no, first, pass_start,
                   fn_in, fn_out>>

\* One turn of the loop of dedupe_keep_last, for the key at place todo.
DedupKey ==
    /\ pc = "dd_loop"
    /\ dd.todo <= Len(dd.occ_map)
    /\ LET locs == dd.occ_map[dd.todo].locs
       IN IF Len(locs) <= 1
          THEN /\ dd' = [dd EXCEPT !.todo = @ + 1, !.kept = @ + Len(locs)]
               /\ report' = report
          ELSE /\ report' = Append(report,
                     Line("DUP", <<Len(to_remove(locs))>>,
                          {dd.occ_map[dd.todo].key[2], locs[Len(locs)].file}))
               /\ IF args.apply
                  THEN dd' = [dd EXCEPT
                                 !.todo = @ + 1,
                                 !.kept = @ + 1,
                                 !.removed = @ + Len(to_remove(locs)),
                                 !.trees_by_file =
                                     RemoveFromTrees(@, Range(to_remove(locs)))]
                  ELSE dd' = [dd EXCEPT !.todo = @ + 1, !.kept = @ + 1]
    /\ UNCHANGED <<corpus, pc, idx, maps, kept_symptoms, used_exams, used_treats,
                   iter_no, prev_state, kept, q, unused_symptoms, unused_exams,
                   unused_treats, args, disk, bak, wq, run_no, first, pass_start,
                   fn_in, fn_out>>

\* dedupe_keep_last returns: write_back starts, or the dry-run line ends the run.
DedupWriteOrNot ==
    /\ pc = "dd_loop"
    /\ dd.todo > Len(dd.occ_map)
    /\ IF args.apply
       THEN /\ wq' = SelectSeq(FileOrder, LAMBDA f : f \in DOMAIN dd.trees_by_file)
            /\ pc' = "dd_write"
            /\ report' = report
       ELSE /\ wq' = wq
            /\ pc' = "dd_end"
            /\ report' = Append(report, Line("DRY-RUN", <<>>, {}))
    /\ UNCHANGED <<corpus, idx, maps, kept_symptoms, used_exams, used_treats,
                   iter_no, prev_state, kept, q, unused_symptoms, unused_exams,
                   unused_treats, args, disk, bak, run_no, first, pass_start, aside>>

\* One turn of the loop of write_back of remove_duplication.
DedupWriteFile ==
    /\ pc = "dd_write"
    /\ wq # <<>>
    /\ LET f == Head(wq)
       IN \E bok \in BOOLEAN, wok \in BOOLEAN :
            /\ (~args.backup => bok)
            /\ bak' = IF args.backup /\ bok
                      THEN [g \in (DOMAIN bak) \cup {f} |->
                                IF g = f THEN disk[f].elems ELSE bak[g]]
                      ELSE bak
            /\ IF wok
               THEN disk' = [disk EXCEPT ![f] = Written(dd.trees_by_file[f])]
               ELSE \E d \in FailedWrite(disk[f]) : disk' = [disk EXCEPT ![f] = d]
            /\ report' = report
                  \o (IF bok THEN <<>> ELSE <<Line("WARN backup", <<>>, {f})>>)
                  \o (IF wok THEN <<>> ELSE <<Line("WARN write", <<>>, {f})>>)
    /\ wq' = Tail(wq)
    /\ UNCHANGED <<corpus, pc, idx, maps, kept_symptoms, used_exams, used_treats,
                   iter_no, prev_state, kept, q, unused_symptoms, unused_exams,
                   unused_treats, args, run_no, first, pass_start, aside>>

\* write_back returns; main prints the counters.
DedupWriteDone ==
    /\ pc = "dd_write"
    /\ wq = <<>>
    /\ report' = Append(report, Line("DONE", <<dd.removed, dd.kept>>, {}))
    /\ pc' = "dd_end"
    /\ UNCHANGED <<corpus, idx, maps, kept_symptoms, used_exams, used_treats,
                   iter_no, prev_state, kept, q, unused_symptoms, unused_exams,
                   unused_treats, args, disk, bak, wq, run_no, first, pass_start,
                   aside>>

DedupNext ==
    \/ DedupScan
    \/ DedupKey
    \/ DedupWriteOrNot
    \/ DedupWriteFile
    \/ DedupWriteDone

DedupInit == StartAt("dd_scan", DedupCorpora(MaxDedupDefs), AllArgs, FALSE, {<<>>})

DedupSpec == DedupInit /\ [][DedupNext]_vars

(***************************************************************************)
(* C22: after the loop of dedupe_keep_last of a run with --apply, the      *)
(* trees hold, of every (tag, ID), exactly one definition, the last one in *)
(* the global order, and they hold every element without ID; a key that    *)
(* occurs once keeps its definition, and equal IDs under different tags    *)
(* are different keys. A document whose write did not fail holds its tree. *)
(* Without --apply nothing is removed and nothing is written.              *)
(***************************************************************************)
\* The definition at place i of the corpus is the last one of its key.
LastOfKey(i) ==
    \A j \in (i + 1)..Len(corpus) : KeyOf(corpus[j]) # KeyOf(corpus[i])

\* The elements that keep-last leaves: those without ID and the last of a key.
Survivors ==
    {corpus[i] : i \in {k \in 1..Len(corpus) :
                           Strip(corpus[k].id) = "" \/ LastOfKey(k)}}

\* dedupe_keep_last has returned.
Deduped == pc \in {"dd_write", "dd_end"}

MaxLocFields == 2

LOC_FIELD_PRIORITY ==
    <<"NameLocID", "AbbreviationLocID", "ShortNameLocID", "TitleLocID",
      "DisplayNameLocID">>

\* f"{entity_id}_DESC" and f"{entity_id}_DESCRIPTION" for the entity of the model.
WithSuffix(id, suffix) ==
    CASE id = "E1" /\ suffix = "_DESC" -> "E1_DESC"
      [] id = "E1" /\ suffix = "_DESCRIPTION" -> "E1_DESCRIPTION"
      [] OTHER -> id

\* The keys a string table of the model may hold.
ZhKeys == {"E1", "E1_DESC", "E1_DESCRIPTION", "LOC_A", "LOC_B"}

\* The text a key is translated to, when it is not the empty text.
TextOf(k) ==
    CASE k = "E1" -> "zh E1"
      [] k = "E1_DESC" -> "zh E1_DESC"
      [] k = "E1_DESCRIPTION" -> "zh E1_DESCRIPTION"
      [] k = "LOC_A" -> "zh LOC_A"
      [] OTHER -> "zh LOC_B"

\* The string tables: any of the keys, each with its text or the empty text.
ZhMaps ==
    UNION {{[k \in K |-> IF k \in E THEN "" ELSE TextOf(k)] : E \in SUBSET K} :
              K \in SUBSET ZhKeys}

\* The (field, LocID) pairs gather_loc_fields may return.
LocPairs == {"NameLocID", "TitleLocID", "DescriptionLocID"} \X {"LOC_A", "LOC_B"}

LocFieldLists == UNION {[1..n -> LocPairs] : n \in 0..MaxLocFields}

PickInputs ==
    [entity_id : {"E1"}, loc_fields : LocFieldLists, zh_map : ZhMaps]

\* pick_best_name: the return statement at the top of the body; no statement
\* after it is ever reached.
pick_best_name(entity_id, loc_fields, zh_map) ==
    IF entity_id \in DOMAIN zh_map THEN zh_map[entity_id] ELSE ""

PickBestName ==
    /\ pc = "pick"
    /\ fn_out' = pick_best_name(fn_in.entity_id, fn_in.loc_fields, fn_in.zh_map)
    /\ pc' = "picked"
    /\ UNCHANGED <<corpus, idx, maps, kept_symptoms, used_exams, used_treats,
                   iter_no, prev_state, kept, q, unused_symptoms, unused_exams,
                   unused_treats, io, pass_start, dd, fn_in>>

PickInit == StartAt("pick", {<<>>}, {DryRun}, FALSE, PickInputs)

PickSpec == PickInit /\ [][PickBestName]_vars

(***************************************************************************)
(* C23: pick_best_name returns the translation of the highest-priority     *)
(* LocID field of the entity that is translated; otherwise the translation *)
(* keyed by ID, ID_DESC or ID_DESCRIPTION; otherwise the translation of    *)
(* any LocID of the entity; otherwise the empty string.                    *)
(***************************************************************************)
\* The key k has a translation that is not empty.
Translated(zh_map, k) == k \in DOMAIN zh_map /\ zh_map[k] # ""

\* The first element of the sequence seq that satisfies Test, or none.
FirstThat(seq, Test(_), none) ==
    LET hits == SelectSeq(seq, Test) IN IF hits = <<>> THEN none ELSE hits[1]

\* The display text in the documented order.
DocumentedName(entity_id, loc_fields, zh_map) ==
    LET good == SelectSeq(loc_fields, LAMBDA pr : Translated(zh_map, pr[2]))
        want == FirstThat(LOC_FIELD_PRIORITY,
                          LAMBDA w : \E i \in 1..Len(good) : good[i][1] = w, "")
        idkey == FirstThat(<<entity_id, WithSuffix(entity_id, "_DESC"),
                             WithSuffix(entity_id, "_DESCRIPTION")>>,
                           LAMBDA k : Translated(zh_map, k), "")
    IN IF want # ""
       THEN zh_map[FirstThat(good, LAMBDA pr : pr[1] = want, <<"", "">>)[2]]
       ELSE IF idkey # "" THEN zh_map[idkey]
       ELSE IF good # <<>> THEN zh_map[good[1][2]]
       ELSE ""

C23_DocumentedOrder ==
    pc = "picked" =>
        fn_out = DocumentedName(fn_in.entity_id, fn_in.loc_fields, fn_in.zh_map)

(***************************************************************************)
(* src/utils/sort_examination/sort.py: classify_exam.                      *)
(***************************************************************************)
\* The most room tags an examination of the model requires.
MaxRoomTags == 2

EQUIP_TAGS_IGNORED == {"sit_exam", "clean_hands"}

OFFICE_NO_EQUIP_TAG == "examinations_no_equipment"

OFFICE_BASIC_EQUIP_TAG == "examinations_basic_equipment"

CATEGORY_ORDER ==
    [c \in {"office_no_equipment", "office_simple_equipment", "observation",
            "lab", "imaging"} |->
        CASE c = "office_no_equipment" -> 0
          [] c = "office_simple_equipment" -> 1
          [] c = "observation" -> 2
          [] c = "lab" -> 3
          [] OTHER -> 4]

\* The room tags of the model, stripped and in lower case as tags_under
\* returns them.
RoomTagPool ==
    {"examinations_no_equipment", "examinations_basic_equipment",
     "pathology_lab", "doctors_office", "icu", "xray", "storage"}

\* tag_l.endswith("lab")
EndsWithLab(t) == t = "pathology_lab"

\* "office" in tag_l
HasOffice(t) == t = "doctors_office"

\* any(k in tag_l for k in OBS_ROOM_KEYS)
HasObsKey(t) == t = "icu"

\* A prefix or suffix room, workspace or unit, or any of IMAGING_KEYS inside.
IsImaging(t) == t = "xray"

\* _room_tag_to_category; "" stands for None.
_room_tag_to_category(t, has_effective_equips) ==
    IF t = OFFICE_NO_EQUIP_TAG THEN "office_no_equipment"
    ELSE IF t = OFFICE_BASIC_EQUIP_TAG THEN "office_simple_equipment"
    ELSE IF EndsWithLab(t) THEN "lab"
    ELSE IF HasOffice(t)
         THEN (IF has_effective_equips THEN "office_simple_equipment"
                                       ELSE "office_no_equipment")
    ELSE IF HasObsKey(t) THEN "observation"
    ELSE IF IsImaging(t) THEN "imaging"
    ELSE ""

\* min(candidates, key=lambda c: CATEGORY_ORDER[c])
MinCategory(candidates) ==
    CHOOSE c \in candidates :
        \A d \in candidates : CATEGORY_ORDER[c] <= CATEGORY_ORDER[d]

\* The classification by rooms and equipment: lines 150 to 173.
classify_by_rooms(exam) ==
    LET has_effective_equips == \E t \in exam.equips : t \notin EQUIP_TAGS_IGNORED
        found == {_room_tag_to_category(rt, has_effective_equips) :
                     rt \in exam.room_tags} \ {""}
        upgraded == IF "office_no_equipment" \in found /\ has_effective_equips
                    THEN (found \ {"office_no_equipment"})
                             \cup {"office_simple_equipment"}
                    ELSE found
        candidates == IF upgraded = {}
                      THEN {IF has_effective_equips THEN "office_simple_equipment"
                                                    ELSE "office_no_equipment"}
                      ELSE upgraded
        chosen == MinCategory(candidates)
    IN <<chosen, CATEGORY_ORDER[chosen]>>

\* classify_exam: a LabTestingExaminationRef child with a text that is not
\* blank forces lab; lab_ref is <<>> when there is no such child.
classify_exam(exam) ==
    IF exam.lab_ref # <<>> /\ Strip(exam.lab_ref[1]) # ""
    THEN <<"lab", CATEGORY_ORDER["lab"]>>
    ELSE classify_by_rooms(exam)

\* The examination elements given to classify_exam.
ExamElems ==
    [lab_ref : {<<>>, <<"">>, <<" ">>, <<"E2">>},
     room_tags : {R \in SUBSET RoomTagPool : Cardinality(R) <= MaxRoomTags},
     equips : SUBSET {"sit_exam", "stethoscope"}]

ClassifyExam ==
    /\ pc = "classify"
    /\ fn_out' = classify_exam(fn_in)
    /\ pc' = "classified"
    /\ UNCHANGED <<corpus, idx, maps, kept_symptoms, used_exams, used_treats,
                   iter_no, prev_state, kept, q, unused_symptoms, unused_exams,
                   unused_treats, io, pass_start, dd, fn_in>>

ClassifyInit == StartAt("classify", {<<>>}, {DryRun}, FALSE, ExamElems)

ClassifySpec == ClassifyInit /\ [][ClassifyExam]_vars

(***************************************************************************)
(* C24: the category of an examination does not depend on its             *)
(* LabTestingExaminationRef: it is the category of the examination with    *)
(* the same room tags and equipment and no LabTestingExaminationRef, and    *)
(* it is lab only when a room tag ends in lab.                             *)
(***************************************************************************)
C24_LabRefNotUsed ==
    pc = "classified" =>
        /\ fn_out = classify_exam([fn_in EXCEPT !.lab_ref = <<>>])
        /\ fn_out[1] = "lab" => \E t \in fn_in.room_tags : EndsWithLab(t)

(***************************************************************************)
(* src/utils/sort_examination/sort.py: compute_priorities.                 *)
(***************************************************************************)
\* The largest score of an examination of the model.
MaxScore == 2

PRIORITY_FLOOR == 25

\* The examination ids of exam_meta, in ascending string order.
ExamIds == <<"E1", "E2", "E3">>

IdRank(id) == CHOOSE i \in 1..Len(ExamIds) : ExamIds[i] = id

\* exam_meta as build_scores leaves it: an examination id has a category
\* rank of CATEGORY_ORDER and a score.
ExamMetas ==
    UNION {[D -> [cat_rank : {CATEGORY_ORDER[c] : c \in DOMAIN CATEGORY_ORDER},
                     score : 0..MaxScore]] :
              D \in SUBSET Range(ExamIds)}

\* x sorts before y under the key (cat_rank, -score, ex_id).
SortsBefore(x, y) ==
    \/ x.cat_rank < y.cat_rank
    \/ x.cat_rank = y.cat_rank /\ x.score > y.score
    \/ x.cat_rank = y.cat_rank /\ x.score = y.score
           /\ IdRank(x.ex_id) <= IdRank(y.ex_id)

\* items, sorted.
SortedItems(exam_meta) ==
    LET items == {[ex_id |-> e, cat_rank |-> exam_meta[e].cat_rank,
                   score |-> exam_meta[e].score] : e \in DOMAIN exam_meta}
    IN CHOOSE s \in Perms(items) :
           \A i, j \in 1..Len(s) : i <= j => SortsBefore(s[i], s[j])

\* The key of score alone, not the one the program groups by.
key_fn_ScoreOnly(x) == <<x.score>>

\* key_fn under TIE_ONLY_WITHIN_CATEGORY.
key_fn(x) == <<x.cat_rank, x.score>>

\* itertools.groupby: consecutive items of one key make one group.
RECURSIVE GroupBy(_)
GroupBy(items) ==
    IF items = <<>> THEN <<>>
    ELSE LET before == GroupBy(SubSeq(items, 1, Len(items) - 1))
             x == items[Len(items)]
         IN IF before # <<>>
                 /\ key_fn(before[Len(before)][1]) = key_fn(x)
            THEN [before EXCEPT ![Len(before)] = Append(@, x)]
            ELSE Append(before, <<x>>)

\* compute_priorities: ex_priority and items.
compute_priorities(exam_meta) ==
    LET items == SortedItems(exam_meta)
        groups == GroupBy(items)
        highest == PRIORITY_FLOOR + (Len(groups) - 1)
        GroupOf(e) == CHOOSE g \in 1..Len(groups) :
                          \E k \in 1..Len(groups[g]) : groups[g][k].ex_id = e
    IN [ex_priority |-> [e \in DOMAIN exam_meta |-> highest - (GroupOf(e) - 1)],
        items |-> items]

ComputePriorities ==
    /\ pc = "prioritise"
    /\ fn_out' = compute_priorities(fn_in)
    /\ pc' = "prioritised"
    /\ UNCHANGED <<corpus, idx, maps, kept_symptoms, used_exams, used_treats,
                   iter_no, prev_state, kept, q, unused_symptoms, unused_exams,
                   unused_treats, io, pass_start, dd, fn_in>>

PriorityInit == StartAt("prioritise", {<<>>}, {DryRun}, FALSE, ExamMetas)

PrioritySpec == PriorityInit /\ [][ComputePriorities]_vars

\* The (category rank, score) pairs of exam_meta that sort before the one
\* of examination e.
KeysAbove(e) ==
    {<<fn_in[x].cat_rank, fn_in[x].score>> : x \in
        {x \in DOMAIN fn_in :
            \/ fn_in[x].cat_rank < fn_in[e].cat_rank
            \/ fn_in[x].cat_rank = fn_in[e].cat_rank
                   /\ fn_in[x].score > fn_in[e].score}}

AllKeys == {<<fn_in[x].cat_rank, fn_in[x].score>> : x \in DOMAIN fn_in}

(***************************************************************************)
(* C25: compute_priorities gives the examinations of one (category rank,   *)
(* score) one priority; the groups in the order (category rank ascending,  *)
(* score descending) get consecutive priorities going down by exactly 1,   *)
(* the lowest being PRIORITY_FLOOR; so a lower category rank has a         *)
(* strictly higher priority, and within a category so has a higher score.  *)
(***************************************************************************)
C25_ConsecutivePriorities ==
    pc = "prioritised" =>
        LET p == fn_out.ex_priority
        IN /\ DOMAIN p = DOMAIN fn_in
           /\ \A a \in DOMAIN p :
                  p[a] = PRIORITY_FLOOR + Cardinality(AllKeys) - 1
                             - Cardinality(KeysAbove(a))
           /\ \A a, b \in DOMAIN p :
                  /\ (fn_in[a].cat_rank = fn_in[b].cat_rank
                         /\ fn_in[a].score = fn_in[b].score) => p[a] = p[b]
                  /\ fn_in[a].cat_rank < fn_in[b].cat_rank => p[a] > p[b]
                  /\ (fn_in[a].cat_rank = fn_in[b].cat_rank
                         /\ fn_in[a].score > fn_in[b].score) => p[a] > p[b]
           /\ DOMAIN p # {} =>
                  {p[a] : a \in DOMAIN p}
                      = PRIORITY_FLOOR .. (PRIORITY_FLOOR + Cardinality(AllKeys) - 1)

\* Three examinations in two groups: two tie, and the third, of a higher
\* category rank and a higher score, has the floor priority.
C25_Witness ==
    /\ pc = "prioritised"
    /\ DOMAIN fn_in = {"E1", "E2", "E3"}
    /\ fn_in["E1"] = fn_in["E2"]
    /\ fn_in["E3"].cat_rank > fn_in["E1"].cat_rank
    /\ fn_in["E3"].score > fn_in["E1"].score
    /\ fn_out.ex_priority["E3"] = PRIORITY_FLOOR
    /\ fn_out.ex_priority["E1"] = PRIORITY_FLOOR + 1

(***************************************************************************)
(* src/utils/check_main_symptom/check.py: validate_diagnoses.              *)
(***************************************************************************)
\* The most GameDBSymptomRef elements of a disease of the model.
MaxRefs == 2

\* SymptomDB: symptom id to its is_main flag.
SymptomDBs == UNION {[D -> [is_main : BOOLEAN]] : D \in SUBSET {"S1", "S2"}}

\* The lists of symptom references of a disease, in document order.
RefLists == UNION {[1..n -> {"S1", "S2"}] : n \in 0..MaxRefs}

\* DiseaseDB in the iteration order of the dict: one entry for each id.
DiseaseDBs ==
    UNION {{[i \in 1..Len(ids) |-> [id |-> ids[i], refs |-> refs[i]]] :
               refs \in [1..Len(ids) -> RefLists]} :
              ids \in {<<>>, <<"D1">>, <<"D2">>, <<"D1", "D2">>, <<"D2", "D1">>}}

\* The errors of the inner loop: a reference to an undefined symptom.
UndefinedErrors(d, symptoms) ==
    LET undefined == SelectSeq(d.refs, LAMBDA s : s \notin DOMAIN symptoms)
    IN [i \in 1..Len(undefined) |->
           [rule |-> "integrity", disease |-> d.id, symptoms |-> <<undefined[i]>>,
            other |-> ""]]

\* main_symptoms_found
main_symptoms_found(d, symptoms) ==
    SelectSeq(d.refs, LAMBDA s : s \in DOMAIN symptoms /\ symptoms[s].is_main)

\* The body of the loop over diseases.items(): the errors so far and
\* used_main_symptoms, after disease d.
ValidateOne(acc, d, symptoms) ==
    LET found == main_symptoms_found(d, symptoms)
        errs == acc.errors \o UndefinedErrors(d, symptoms)
        rule1 == [rule |-> "rule1", disease |-> d.id, symptoms |-> found,
                  other |-> ""]
    IN IF Len(found) = 0 \/ Len(found) > 1
       THEN [errors |-> Append(errs, rule1), used |-> acc.used]
       ELSE IF found[1] \in DOMAIN acc.used
            THEN [errors |-> Append(errs, [rule |-> "rule2", disease |-> d.id,
                                           symptoms |-> found,
                                           other |-> acc.used[found[1]]]),
                  used |-> acc.used]
            ELSE [errors |-> errs,
                  used |-> [s \in DOMAIN acc.used \cup {found[1]} |->
                               IF s = found[1] THEN d.id ELSE acc.used[s]]]

RECURSIVE ValidateLoop(_, _)
ValidateLoop(diseases, symptoms) ==
    IF diseases = <<>> THEN [errors |-> <<>>, used |-> <<>>]
    ELSE ValidateOne(ValidateLoop(SubSeq(diseases, 1, Len(diseases) - 1), symptoms),
                     diseases[Len(diseases)], symptoms)

validate_diagnoses(diseases, symptoms) == ValidateLoop(diseases, symptoms).errors

ValidateDiagnoses ==
    /\ pc = "validate"
    /\ fn_out' = validate_diagnoses(fn_in.diseases, fn_in.symptoms)
    /\ pc' = "validated"
    /\ UNCHANGED <<corpus, idx, maps, kept_symptoms, used_exams, used_treats,
                   iter_no, prev_state, kept, q, unused_symptoms, unused_exams,
                   unused_treats, io, pass_start, dd, fn_in>>

ValidateInit ==
    StartAt("validate", {<<>>}, {DryRun}, FALSE,
            [diseases : DiseaseDBs, symptoms : SymptomDBs])

ValidateSpec == ValidateInit /\ [][ValidateDiagnoses]_vars

\* The referenced symptoms of a disease that are flagged as main.
MainsOf(d) ==
    {s \in Range(d.refs) \cap DOMAIN fn_in.symptoms : fn_in.symptoms[s].is_main}

AllDefined(d) == Range(d.refs) \subseteq DOMAIN fn_in.symptoms

OneMain(d) == Cardinality(MainsOf(d)) = 1

SharedMain(d, e) == d.id # e.id /\ MainsOf(d) \cap MainsOf(e) # {}

Names(err, d) == err.disease = d.id \/ err.other = d.id

(***************************************************************************)
(* C26: validate_diagnoses returns no error exactly when every referenced  *)
(* symptom is defined, every disease has exactly one referenced symptom    *)
(* flagged as main and no main symptom is the main symptom of two          *)
(* diseases; and a violated rule has an error naming the disease.          *)
(***************************************************************************)
C26_ErrorsIffRuleBroken ==
    pc = "validated" =>
        LET ds == Range(fn_in.diseases)
            errs == Range(fn_out)
        IN /\ fn_out = <<>> <=>
                  /\ \A d \in ds : AllDefined(d) /\ OneMain(d)
                  /\ \A d, e \in ds : ~SharedMain(d, e)
           /\ \A d \in ds :
                  /\ ~AllDefined(d) => \E err \in errs : Names(err, d)
                  /\ ~OneMain(d) => \E err \in errs : Names(err, d)
                  /\ \A e \in ds : SharedMain(d, e) =>
                         \E err \in errs : Names(err, d) \/ Names(err, e)

(***************************************************************************)
(* The passes of the fixed-point loop of remove_unused.                    *)
(***************************************************************************)
\* The three sets, as a pass has them.
ThreeSets == <<kept_symptoms, used_exams, used_treats>>

\* Every id that occurs in the corpus, as an ID attribute or as the text of a
\* reference.
OccurringIds ==
    UNION {_texts({e.id}) \cup _texts(e.syms) \cup _texts(e.exams)
               \cup _texts(e.treats) \cup _texts(e.collapse) \cup _texts(e.peers)
               \cup _texts(e.comps) : e \in Range(corpus)}

\* The pass that ends here has added an id to one of the three sets.
PassGrew ==
    /\ \A k \in 1..3 : pass_start[k] \subseteq ThreeSets[k]
    /\ \E k \in 1..3 : pass_start[k] # ThreeSets[k]

Surviving ==
    {e \in UNION {Range(idx.trees_by_file[f]) : f \in DOMAIN idx.trees_by_file} :
        Strip(e.id) # ""}

\* The symptoms, examinations and treatments the definition e refers to.
SymptomRefs(e) == _texts(e.syms) \cup _texts(e.collapse) \cup _texts(e.comps)

ExamRefs(e) == _texts(e.exams) \cup _texts(e.peers)

TreatRefs(e) == _texts(e.treats)

(***************************************************************************)
(* C28: with --apply, once the deletions are done no definition left in a  *)
(* tree refers (as symptom, examination, treatment, collapse, lab peer or  *)
(* complication of any treatment) to an id of a deletion list.             *)
(***************************************************************************)
C28_NoDanglingRefs ==
    (args.apply /\ Deleted) =>
        \A e \in Surviving :
            /\ SymptomRefs(e) \cap Range(unused_symptoms) = {}
            /\ ExamRefs(e) \cap Range(unused_exams) = {}
            /\ TreatRefs(e) \cap Range(unused_treats) = {}

(***************************************************************************)
(* C29: with --apply and --backup no document is overwritten unless a      *)
(* backup of what it held was written first: a document that write_back    *)
(* has written to has a .bak copy holding its original content.            *)
(***************************************************************************)
C29_BackupBeforeOverwrite ==
    (args.apply /\ args.backup) =>
        \A f \in DOMAIN disk :
            disk[f].written => (f \in DOMAIN bak /\ bak[f] = ParsedTree(f))

(***************************************************************************)
(* C30: the counts of the report are consistent for each kind: the kept    *)
(* or used count plus the delete count is the defined count, and the kept  *)
(* or used count is at most the defined count, also when ids without a     *)
(* definition are referenced.                                              *)
(***************************************************************************)
C30_CountsConsistent ==
    \A i \in 1..Len(report) :
        LET l == report[i]
        IN /\ l.text = "keep" =>
                  /\ l.nums[1] <= l.nums[2]
                  /\ l.nums[1] + report[i + 1].nums[1] = l.nums[2]
           /\ l.text \in {"exams used/def", "treatments used/def"} =>
                  /\ l.nums[1] <= l.nums[2]
                  /\ l.nums[1] + l.nums[3] = l.nums[2]

====
